---------------------------- MODULE Spec2Model ----------------------------
(***************************************************************************)
(* A model of the luarena arena-battle simulator: the game loop of         *)
(* src/src/game.rs (run_game, run_round, step and its stages), the event   *)
(* manager, the command vocabulary of src/src/character.rs and the Lua     *)
(* adapter of src/src/character/lua.rs.                                    *)
(*                                                                         *)
(* Numbers are fixed point.  Angles are in hundredths of a radian          *)
(* (PI = 314), lengths in tenths of an arena unit (WIDTH = 16000).  Hit    *)
(* points and the attack cooldown are scaled down (two hits kill, the      *)
(* cooldown lasts two ticks) so that a round ends within MaxTicks ticks.   *)
(***************************************************************************)
EXTENDS Integers, Sequences, FiniteSets, TLC

\* ------------------------------------------------------------------------
\* Bounds of the model
\* ------------------------------------------------------------------------

\* most characters added to one game
MaxPlayers == 2

\* most ticks played in one round (the tick counter stays below it)
MaxTicks == 7

\* most failed add_lua_player calls in one game
MaxAddErrors == 1

\* ------------------------------------------------------------------------
\* settings.rs and math_utils.rs constants
\* ------------------------------------------------------------------------

PI == 314

HALF_PI == 157

TWO_PI == 628

INITIAL_HP == 20

MAX_TURN_RATE == 5

MAX_HEAD_TURN_RATE == 10

MAX_ARMS_TURN_RATE == 8

ANGLE_OF_VISION == 141

ANGLE_OF_ACTION == HALF_PI

PLAYER_RADIUS == 250

ATTACK_RADIUS == 40

ATTACK_DAMAGE == 10

ATTACK_COOLDOWN == 2

WIDTH == 16000

HEIGHT == 12000

MAX_VELOCITY == 10

\* velocity of a projectile (game.rs: velocity: 2.5)
ATTACK_VELOCITY == 25

\* run_game: let max_rounds = 2
max_rounds == 2

\* config.rs, BattleConfiguration: the rounds of a battle, unless the command
\* line says otherwise (default_value_t = 10)
default_rounds == 10

\* ------------------------------------------------------------------------
\* math_utils.rs
\* ------------------------------------------------------------------------

Abs(x) == IF x < 0 THEN -x ELSE x

Min(a, b) == IF a <= b THEN a ELSE b

Max(a, b) == IF a >= b THEN a ELSE b

\* integer division rounding toward zero, as a float product is truncated
\* to the fixed-point grid
DivTrunc(a, b) == IF a >= 0 THEN a \div b ELSE -((-a) \div b)

RECURSIVE SqrtSearch(_, _, _)
SqrtSearch(n, lo, hi) ==
    IF lo >= hi THEN lo
    ELSE LET mid == (lo + hi + 1) \div 2
         IN IF mid * mid <= n THEN SqrtSearch(n, mid, hi)
            ELSE SqrtSearch(n, lo, mid - 1)

\* f32::sqrt on the fixed-point grid: the largest r with r*r <= n
Sqrt(n) == SqrtSearch(n, 0, 46340)

Point(x, y) == [x |-> x, y |-> y]

PointZero == Point(0, 0)

dist_sqr(p, q) == (p.x - q.x) * (p.x - q.x) + (p.y - q.y) * (p.y - q.y)

dist(p, q) == Sqrt(dist_sqr(p, q))

PointAdd(p, q) == Point(p.x + q.x, p.y + q.y)

\* sine of an angle in [0, PI], times 100 (Bhaskara's rational approximation)
SinHalfTurn(x) == (1600 * x * (PI - x)) \div (5 * PI * PI - 4 * x * (PI - x))

\* f32::sin, times 100, of any angle
Sin100(a) ==
    LET m == a % TWO_PI
    IN IF m <= PI THEN SinHalfTurn(m) ELSE -SinHalfTurn(m - PI)

\* f32::cos, times 100
Cos100(a) == Sin100(a + HALF_PI)

line_endpoint(x, y, len, angle) ==
    Point(x + DivTrunc(Sin100(angle) * len, 100),
          y + DivTrunc(-Cos100(angle) * len, 100))

clamp(x, lower, upper) == Min(Max(lower, x), upper)

RECURSIVE normalize_absolute_angle(_)
\* an angle that is left as it is
normalize_absolute_angle_off(angle) == angle

normalize_absolute_angle(angle) ==
    IF angle >= TWO_PI THEN normalize_absolute_angle(angle - TWO_PI)
    ELSE IF angle < 0 THEN normalize_absolute_angle(angle + TWO_PI)
    ELSE angle


\* f32::atan(num / den) for num, den >= 0, in hundredths of a radian
\* (atan t ~ t * (pi/4 + 0.273 * (1 - t)) on [0, 1]; a zero den is +inf)
AtanRatio(num, den) ==
    IF den = 0 THEN HALF_PI
    ELSE IF num <= den
         THEN LET t == (num * 1000) \div den
              IN (t * (785 + (273 * (1000 - t)) \div 1000)) \div 10000
         ELSE IF num = 0 THEN 0
              ELSE LET t == (den * 1000) \div num
                   IN HALF_PI - (t * (785 + (273 * (1000 - t)) \div 1000)) \div 10000

\* f32::atan2(dy, dx), in hundredths of a radian
Atan2(dy, dx) ==
    IF dx > 0 THEN (IF dy >= 0 THEN AtanRatio(dy, dx) ELSE -AtanRatio(-dy, dx))
    ELSE IF dx < 0
         THEN (IF dy >= 0 THEN PI - AtanRatio(dy, -dx)
               ELSE AtanRatio(-dy, -dx) - PI)
         ELSE (IF dy > 0 THEN HALF_PI ELSE IF dy < 0 THEN -HALF_PI ELSE 0)

angle_between(p, q) == Atan2(q.y - p.y, q.x - p.x) + HALF_PI

Sector(angle, delta) == [angle |-> angle, delta |-> delta]

SectorLeft(s) == s.angle - s.delta

SectorRight(s) == s.angle + s.delta

\* is_between without the arc that crosses 0
is_between_no_wrap(x, a, b) == a <= x /\ x <= b

is_between(x, a, b) ==
    IF a <= b THEN a <= x /\ x <= b ELSE a <= x \/ x <= b

\* overlaps that only looks for an edge of s inside other
overlaps_one_way(s, other) ==
    LET sl == normalize_absolute_angle(SectorLeft(s))
        sr == normalize_absolute_angle(SectorRight(s))
        ol == normalize_absolute_angle(SectorLeft(other))
        or == normalize_absolute_angle(SectorRight(other))
    IN \/ is_between(sl, ol, or)
       \/ is_between(sr, ol, or)

overlaps(s, other) ==
    LET sl == normalize_absolute_angle(SectorLeft(s))
        sr == normalize_absolute_angle(SectorRight(s))
        ol == normalize_absolute_angle(SectorLeft(other))
        or == normalize_absolute_angle(SectorRight(other))
    IN \/ is_between(sl, ol, or)
       \/ is_between(sr, ol, or)
       \/ is_between(ol, sl, sr)
       \/ is_between(or, sl, sr)

\* ------------------------------------------------------------------------
\* character.rs: commands, intent, character state
\* ------------------------------------------------------------------------

MovementDirection == {"Forward", "Backward", "Left", "Right"}

Move(dir, d) == [tag |-> "Move", dir |-> dir, arg |-> d]

Attack == [tag |-> "Attack", dir |-> "Forward", arg |-> 0]

Turn(a) == [tag |-> "Turn", dir |-> "Forward", arg |-> a]

TurnHead(a) == [tag |-> "TurnHead", dir |-> "Forward", arg |-> a]

TurnArms(a) == [tag |-> "TurnArms", dir |-> "Forward", arg |-> a]

\* Command::index
CommandIndex(cmd) ==
    CASE cmd.tag = "Move" -> 0
      [] cmd.tag = "Attack" -> 1
      [] cmd.tag = "Turn" -> 2
      [] cmd.tag = "TurnHead" -> 3
      [] cmd.tag = "TurnArms" -> 4

\* impl Default for Intent
DefaultIntent ==
    [direction |-> "Forward", distance |-> 0, attack |-> FALSE,
     turn_angle |-> 0, turn_head_angle |-> 0, turn_arms_angle |-> 0]

\* State::new / PlayerState::new
NewState(id) ==
    [id |-> id, hp |-> INITIAL_HP, pos |-> PointZero, heading |-> 0,
     head_heading |-> 0, arms_heading |-> 0, attack_cooldown |-> 0,
     rounds_won |-> 0]

\* State::reset / PlayerState::reset: the cooldown and the statistics are
\* not touched
\* a reset that also forgets the wins
ResetState_forget(st, next_pos) ==
    [st EXCEPT !.hp = INITIAL_HP, !.heading = 0, !.head_heading = 0,
               !.arms_heading = 0, !.pos = next_pos, !.rounds_won = 0]

\* a reset that keeps the body heading of the round before
ResetState_keep_heading(st, next_pos) ==
    [st EXCEPT !.hp = INITIAL_HP, !.head_heading = 0,
               !.arms_heading = 0, !.pos = next_pos]

ResetState(st, next_pos) ==
    [st EXCEPT !.hp = INITIAL_HP, !.heading = 0, !.head_heading = 0,
               !.arms_heading = 0, !.pos = next_pos]

effective_head_heading(st) ==
    normalize_absolute_angle(st.heading + st.head_heading)

effective_arms_heading(st) ==
    normalize_absolute_angle(st.heading + st.arms_heading)

alive(st) == st.hp > 0


\* ------------------------------------------------------------------------
\* character/lua.rs: the Lua adapter.  A script is the table the Lua chunk
\* returns: a function from the handler names it defines to what the
\* handler does when called.
\* ------------------------------------------------------------------------

EventKinds ==
    {"Tick", "RoundStarted", "RoundEnded", "EnemySeen", "HitBy", "AttackHit",
     "Death", "EnemyDied", "RoundDrawn", "RoundWon"}

Ret(cmds) == [ret |-> "commands", cmds |-> cmds]

RetNil == [ret |-> "nil", cmds |-> <<>>]

RetError == [ret |-> "error", cmds |-> <<>>]

Ok(cmds) == [ok |-> TRUE, value |-> cmds]

Err == [ok |-> FALSE, value |-> <<>>]

\* impl FromLua for Commands: nil is the empty list
CommandsFromLua(r) == IF r.ret = "nil" THEN Ok(<<>>) ELSE Ok(r.cmds)

\* LuaImpl::call_event_handler
call_event_handler(script, name) ==
    IF name \in DOMAIN script
    THEN (IF script[name].ret = "error" THEN Err
          ELSE CommandsFromLua(script[name]))
    ELSE Ok(<<>>)

\* the handler name LuaImpl::on_event passes for each event kind
LuaHandlerName(kind) ==
    CASE kind = "Tick" -> "on_tick"
      [] kind = "RoundStarted" -> "on_round_started"
      [] kind = "RoundEnded" -> "on_round_started"
      [] kind = "EnemySeen" -> "on_enemy_seen"
      [] kind = "HitBy" -> "on_hit_by"
      [] kind = "AttackHit" -> "on_attack_hit"
      [] kind = "Death" -> "on_death"
      [] kind = "EnemyDied" -> "on_enemy_death"
      [] kind = "RoundDrawn" -> "on_round_drawn"
      [] kind = "RoundWon" -> "on_round_won"

\* impl Impl for LuaImpl: on_event
on_event(script, kind) == call_event_handler(script, LuaHandlerName(kind))

\* the scripts of the characters that can be loaded into a game
ScriptIdle == << >>

ScriptFighter == "on_tick" :> Ret(<<Attack>>)

ScriptRover ==
    ("on_round_started" :> Ret(<<Turn(12), Attack, Move("Forward", 25)>>))
    @@ ("on_tick" :> RetNil)
    @@ ("on_enemy_seen" :> Ret(<<TurnHead(1000), Move("Left", 5)>>))

\* a character that walks on, straight ahead
ScriptWalker == "on_tick" :> Ret(<<Move("Forward", 10)>>)

ScriptFaulty ==
    ("on_tick" :> Ret(<<Attack>>)) @@ ("on_hit_by" :> RetError)

GameScripts == {ScriptIdle, ScriptFighter, ScriptRover, ScriptFaulty}

\* a character directory: whether its metadata loads, its entrypoint loads
\* and the library registers, and the script it holds
CharacterDir(meta_ok, entry_ok, lib_ok, script) ==
    [meta_ok |-> meta_ok, entry_ok |-> entry_ok, lib_ok |-> lib_ok,
     script |-> script]

CharacterDirs ==
    {CharacterDir(TRUE, TRUE, TRUE, s) : s \in GameScripts}
    \cup {CharacterDir(FALSE, TRUE, TRUE, ScriptIdle),
          CharacterDir(TRUE, FALSE, TRUE, ScriptIdle),
          CharacterDir(TRUE, TRUE, FALSE, ScriptIdle)}

\* ------------------------------------------------------------------------
\* game.rs: events
\* ------------------------------------------------------------------------

None == -1

EvTick(n) == [tag |-> "Tick", n |-> n]

EvRoundStarted(round, players) ==
    [tag |-> "RoundStarted", round |-> round, players |-> players]

EvRoundOver(winner) == [tag |-> "RoundOver", winner |-> winner]

EvPlayerTurned(id, delta) == [tag |-> "PlayerTurned", id |-> id, delta |-> delta]

EvPlayerHeadTurned(id, delta) ==
    [tag |-> "PlayerHeadTurned", id |-> id, delta |-> delta]

EvPlayerArmsTurned(id, delta) ==
    [tag |-> "PlayerArmsTurned", id |-> id, delta |-> delta]

EvPlayerPositionUpdated(id, delta) ==
    [tag |-> "PlayerPositionUpdated", id |-> id, delta |-> delta]

EvAttackCreated(owner, attack) ==
    [tag |-> "AttackCreated", owner |-> owner, attack |-> attack]

EvAttackAdvanced(id, pos) == [tag |-> "AttackAdvanced", id |-> id, pos |-> pos]

EvAttackMissed(id) == [tag |-> "AttackMissed", id |-> id]

EvHit(id, owner, victim, pos) ==
    [tag |-> "Hit", id |-> id, owner |-> owner, victim |-> victim, pos |-> pos]

\* ------------------------------------------------------------------------
\* game.rs: EventManager
\* ------------------------------------------------------------------------

\* EventManager::new
NewEventManager == [current_events |-> <<>>, all_events |-> <<>>]

\* EventManager::record
record(em, event) ==
    [em EXCEPT !.current_events = Append(em.current_events, event)]

RECURSIVE record_all(_, _)
record_all(em, events) ==
    IF events = <<>> THEN em
    ELSE record_all(record(em, Head(events)), Tail(events))

\* EventManager::init_round
em_init_round(em, round, players) ==
    [all_events |-> Append(em.all_events, em.current_events),
     current_events |-> <<EvRoundStarted(round, players)>>]

\* init_tick if it appended the Tick event in every tick
em_init_tick_append(em, tick) ==
    record([em EXCEPT !.all_events = Append(em.all_events, em.current_events)],
           EvTick(tick))

\* EventManager::init_tick
em_init_tick(em, tick) ==
    LET pushed == [em EXCEPT !.all_events = Append(em.all_events, em.current_events)]
    IN IF tick = 0 THEN record(pushed, EvTick(tick))
       ELSE [pushed EXCEPT !.current_events = <<EvTick(tick)>>]


\* ------------------------------------------------------------------------
\* game.rs: Game and the stages of one tick.  A game g is the record of the
\* struct's fields; ord is the iteration order of the player_states map.
\* ------------------------------------------------------------------------

Ongoing == [tag |-> "Ongoing", winner |-> None]

Won(id) == [tag |-> "Won", winner |-> id]

Draw == [tag |-> "Draw", winner |-> None]

\* Game::new
NewGame ==
    [tick |-> 0, round |-> 1, player_states |-> << >>, impls |-> << >>,
     attacks |-> <<>>, attack_ids |-> 0, round_state |-> Ongoing]

\* the ids of the characters of a game
Ids(g) == DOMAIN g.player_states

\* Game::living_players, as a set of ids
living_players(g) == {id \in Ids(g) : alive(g.player_states[id])}

RECURSIVE SelectSeq2(_, _)
\* the ids of ord that are alive, in iteration order
SelectSeq2(g, ord) ==
    IF ord = <<>> THEN <<>>
    ELSE IF alive(g.player_states[Head(ord)])
         THEN <<Head(ord)>> \o SelectSeq2(g, Tail(ord))
         ELSE SelectSeq2(g, Tail(ord))

\* fn valid_position
valid_position(p) ==
    /\ p.x >= PLAYER_RADIUS
    /\ p.x <= WIDTH - PLAYER_RADIUS
    /\ p.y >= PLAYER_RADIUS
    /\ p.y <= HEIGHT - PLAYER_RADIUS

\* fn clamp_turn_angle
\* a turn angle that is not held within the angle of action
clamp_turn_angle_off(angle) == angle

clamp_turn_angle(angle) == clamp(angle, -ANGLE_OF_ACTION, ANGLE_OF_ACTION)

\* fn players_collide
players_collide(p, q) == dist(p, q) <= 2 * PLAYER_RADIUS

\* fn inside_arena
inside_arena(p) == p.x >= 0 /\ p.x <= WIDTH /\ p.y >= 0 /\ p.y <= HEIGHT

\* fn check_for_round_end: the events it records
\* check_for_round_end if a single survivor were treated like no survivor
check_for_round_end_draw(g) ==
    IF Cardinality(living_players(g)) <= 1 THEN <<EvRoundOver(None)>> ELSE <<>>

check_for_round_end(g) ==
    LET living == living_players(g)
    IN IF Cardinality(living) = 0 THEN <<EvRoundOver(None)>>
       ELSE IF Cardinality(living) = 1
            THEN <<EvRoundOver(CHOOSE id \in living : TRUE)>>
            ELSE <<>>

\* transition_players, first loop: the body turn delta of one character
BodyTurnDelta(g, id) ==
    clamp(g.impls[id].intent.turn_angle, -MAX_TURN_RATE, MAX_TURN_RATE)

DirHeading(direction) ==
    CASE direction = "Forward" -> 0
      [] direction = "Backward" -> PI
      [] direction = "Left" -> -HALF_PI
      [] direction = "Right" -> HALF_PI

\* transition_players, first loop: the step a character would take, from
\* its heading after the turn of this tick and its intent
CandidateDelta(g, id) ==
    LET st == g.player_states[id]
        intent == g.impls[id].intent
        heading == normalize_absolute_angle(st.heading + BodyTurnDelta(g, id))
        velocity == Min(intent.distance, MAX_VELOCITY)
        movement_heading == heading + DirHeading(intent.direction)
        dx == DivTrunc(Sin100(movement_heading) * velocity, 100)
        dy == DivTrunc(-Cos100(movement_heading) * velocity, 100)
    IN Point(dx, dy)

\* transition_players, first loop: the entry of next_positions for one
\* character, [delta, next]
NextPosition_unchecked(g, id) ==
    LET st == g.player_states[id]
        delta == CandidateDelta(g, id)
    IN [delta |-> delta, next |-> PointAdd(st.pos, delta)]

NextPosition(g, id) ==
    LET st == g.player_states[id]
        delta == CandidateDelta(g, id)
        next_pos == PointAdd(st.pos, delta)
    IN IF valid_position(next_pos) THEN [delta |-> delta, next |-> next_pos]
       ELSE [delta |-> PointZero, next |-> st.pos]

\* fn transition_heads: the event it records
\* transition_heads without the clamp to the angle of action
transition_heads_unclamped(st, turn_angle) ==
    EvPlayerHeadTurned(st.id,
        clamp(turn_angle, -MAX_HEAD_TURN_RATE, MAX_HEAD_TURN_RATE))

transition_heads(st, turn_angle) ==
    LET delta == clamp(turn_angle, -MAX_HEAD_TURN_RATE, MAX_HEAD_TURN_RATE)
        current_heading == st.head_heading
        effective_delta == clamp_turn_angle(current_heading + delta) - current_heading
    IN EvPlayerHeadTurned(st.id, effective_delta)

\* fn transition_arms: the event it records
transition_arms(st, turn_angle) ==
    LET delta == clamp(turn_angle, -MAX_ARMS_TURN_RATE, MAX_ARMS_TURN_RATE)
        current_heading == st.arms_heading
        effective_delta == clamp_turn_angle(current_heading + delta) - current_heading
    IN EvPlayerArmsTurned(st.id, effective_delta)

RECURSIVE TurnEvents(_, _)
\* transition_players, first loop: the events recorded, in iteration order
TurnEvents(g, ord) ==
    IF ord = <<>> THEN <<>>
    ELSE LET id == Head(ord)
             st == g.player_states[id]
             intent == g.impls[id].intent
         IN <<EvPlayerTurned(st.id, BodyTurnDelta(g, id)),
              transition_heads(st, intent.turn_head_angle),
              transition_arms(st, intent.turn_arms_angle)>>
            \o TurnEvents(g, Tail(ord))

\* a collision that stops only the character with the higher id
Collides_one_sided(g, id) ==
    \E other \in Ids(g) :
        /\ other < id
        /\ players_collide(NextPosition(g, id).next, NextPosition(g, other).next)

\* transition_players, second loop: whether a character's candidate
\* collides with the candidate of another
Collides(g, id) ==
    \E other \in Ids(g) :
        /\ other # id
        /\ players_collide(NextPosition(g, id).next, NextPosition(g, other).next)

RECURSIVE PositionEvents_skip(_, _)
RECURSIVE PositionEvents(_, _)
\* transition_players, second loop: the events recorded, in iteration order
PositionEvents_skip(g, ord) ==
    IF ord = <<>> THEN <<>>
    ELSE LET id == Head(ord)
         IN (IF ~Collides(g, id)
             THEN <<EvPlayerPositionUpdated(id, NextPosition(g, id).delta)>>
             ELSE <<>>)
            \o PositionEvents_skip(g, Tail(ord))

PositionEvents(g, ord) ==
    IF ord = <<>> THEN <<>>
    ELSE LET id == Head(ord)
         IN <<IF ~Collides(g, id)
              THEN EvPlayerPositionUpdated(id, NextPosition(g, id).delta)
              ELSE EvPlayerPositionUpdated(id, PointZero)>>
            \o PositionEvents(g, Tail(ord))

\* fn transition_players: the events it records
transition_players(g, ord) == TurnEvents(g, ord) \o PositionEvents(g, ord)

\* struct Attack
NewAttack(id, pos, owner, heading) ==
    [id |-> id, pos |-> pos, owner |-> owner, heading |-> heading,
     velocity |-> ATTACK_VELOCITY]

\* a character that attacks whenever it wants to, ready or not
will_attack_at_once(g, id) == g.impls[id].intent.attack

\* create_attacks: whether a character spawns a projectile
will_attack(g, id) ==
    g.impls[id].intent.attack /\ g.player_states[id].attack_cooldown = 0

RECURSIVE create_attacks(_, _)
\* fn create_attacks: [next: the id counter afterwards, events: the events
\* recorded]; the counter is drawn from while the events are recorded
create_attacks(g, ord) ==
    IF ord = <<>> THEN [next |-> g.attack_ids, events |-> <<>>]
    ELSE LET id == Head(ord)
             st == g.player_states[id]
         IN IF will_attack(g, id)
            THEN LET attack == NewAttack(g.attack_ids, st.pos, id,
                                         effective_arms_heading(st))
                     rest == create_attacks(
                                 [g EXCEPT !.attack_ids = g.attack_ids + 1],
                                 Tail(ord))
                 IN [next |-> rest.next,
                     events |-> <<EvAttackCreated(id, attack)>> \o rest.events]
            ELSE create_attacks(g, Tail(ord))

RECURSIVE FirstHit(_, _, _)
\* fn attack_hits_player: the first living character in iteration order
\* that is not the owner and is in range of the projectile, or None
FirstHit(g, attack, players) ==
    IF players = <<>> THEN None
    ELSE LET id == Head(players)
         IN IF /\ id # attack.owner
               /\ dist(attack.pos, g.player_states[id].pos)
                      <= ATTACK_RADIUS + PLAYER_RADIUS
            THEN id
            ELSE FirstHit(g, attack, Tail(players))

\* a search among all the characters, the dead included
attack_hits_anyone(g, attack, ord) == FirstHit(g, attack, ord)

attack_hits_player(g, attack, ord) == FirstHit(g, attack, SelectSeq2(g, ord))

\* transition_attacks: the event recorded for one projectile
AttackEvent(g, attack, ord) ==
    LET next_pos == line_endpoint(attack.pos.x, attack.pos.y,
                                  attack.velocity, attack.heading)
    IN IF inside_arena(next_pos)
       THEN LET victim == attack_hits_player(g, attack, ord)
            IN IF victim # None
               THEN EvHit(attack.id, attack.owner, victim, next_pos)
               ELSE EvAttackAdvanced(attack.id, next_pos)
       ELSE EvAttackMissed(attack.id)

\* fn transition_attacks: the events it records
transition_attacks(g, ord) ==
    [i \in 1..Len(g.attacks) |-> AttackEvent(g, g.attacks[i], ord)]


\* ------------------------------------------------------------------------
\* game.rs: advance_game_state
\* ------------------------------------------------------------------------

\* a list that is never shortened
RemoveAttack_keep(attacks, id) == attacks

RECURSIVE RemoveAttack(_, _)
\* attacks.iter().position(..) and attacks.remove(index)
RemoveAttack(attacks, id) ==
    IF attacks = <<>> THEN <<>>
    ELSE IF Head(attacks).id = id THEN Tail(attacks)
         ELSE <<Head(attacks)>> \o RemoveAttack(Tail(attacks), id)

\* the win statistics: the winner's rounds_won grows by one when the
\* round-over event is applied
RecordWin(g, winner) ==
    IF winner \in Ids(g)
    THEN [g EXCEPT !.player_states[winner].rounds_won = @ + 1]
    ELSE g

\* the Hit arm if it added the damage
ApplyHit_heal(g, event) ==
    [g EXCEPT !.attacks = RemoveAttack(g.attacks, event.id),
              !.player_states[event.victim].hp = @ + ATTACK_DAMAGE]

\* advance_game_state, GameEvent::Hit: the projectile is removed and the
\* victim loses ATTACK_DAMAGE hit points
ApplyHit(g, event) ==
    [g EXCEPT !.attacks = RemoveAttack(g.attacks, event.id),
              !.player_states[event.victim].hp = @ - ATTACK_DAMAGE]

RECURSIVE UnitInLastPlace(_)
\* the distance of neighbouring f32 values around n >= 0 (24 bits)
UnitInLastPlace(n) ==
    IF n < 16777216 THEN 1 ELSE 2 * UnitInLastPlace(n \div 2)

\* intended - delta in f32, for a delta of one turn rate at most: where
\* neighbouring f32 values are 2 radians or more apart (2^24 radians and
\* more) the difference is rounded back to the intended angle
f32_sub_delta(intended, delta) ==
    IF UnitInLastPlace(Abs(intended) \div 100) > 1 THEN intended
    ELSE intended - delta

\* the remaining turn angle of an intent after a delta was applied
RemainingTurn(intended, delta, rate) ==
    IF Abs(intended) < rate THEN 0 ELSE f32_sub_delta(intended, delta)

\* advance_game_state: one arm of the match
\* a variant that leaves the tick counter where it is
ApplyTick_skip(g, event) ==
    [g EXCEPT !.player_states =
                 [id \in Ids(g) |->
                    LET st == g.player_states[id]
                    IN IF st.attack_cooldown > 0
                       THEN [st EXCEPT !.attack_cooldown = @ - 1]
                       ELSE st]]

\* advance_game_state, GameEvent::Tick(_): the tick counter advances and
\* every attack cooldown runs down by one
ApplyTick(g, event) ==
    [g EXCEPT !.tick = @ + 1,
              !.player_states =
                 [id \in Ids(g) |->
                    LET st == g.player_states[id]
                    IN IF st.attack_cooldown > 0
                       THEN [st EXCEPT !.attack_cooldown = @ - 1]
                       ELSE st]]

ApplyEvent(g, event) ==
    CASE event.tag = "Tick" -> ApplyTick(g, event)
      [] event.tag = "RoundStarted" -> g
      [] event.tag = "RoundOver" ->
           RecordWin([g EXCEPT !.round_state =
                        IF event.winner # None THEN Won(event.winner) ELSE Draw],
                     event.winner)
      [] event.tag = "PlayerPositionUpdated" ->
           LET pos == g.player_states[event.id].pos
               d == dist(pos, PointZero)
               distance == g.impls[event.id].intent.distance
           IN [g EXCEPT !.player_states[event.id].pos = PointAdd(pos, event.delta),
                        !.impls[event.id].intent.distance = Max(distance - d, 0)]
      [] event.tag = "PlayerTurned" ->
           LET st == g.player_states[event.id]
               turn_angle == g.impls[event.id].intent.turn_angle
           IN [g EXCEPT !.player_states[event.id].heading =
                            normalize_absolute_angle(st.heading + event.delta),
                        !.impls[event.id].intent.turn_angle =
                            RemainingTurn(turn_angle, event.delta, MAX_TURN_RATE)]
      [] event.tag = "PlayerHeadTurned" ->
           LET st == g.player_states[event.id]
               intended == g.impls[event.id].intent.turn_head_angle
           IN [g EXCEPT !.player_states[event.id].head_heading =
                            st.head_heading + event.delta,
                        !.impls[event.id].intent.turn_head_angle =
                            RemainingTurn(intended, event.delta, MAX_HEAD_TURN_RATE)]
      [] event.tag = "PlayerArmsTurned" ->
           LET st == g.player_states[event.id]
               intended == g.impls[event.id].intent.turn_arms_angle
           IN [g EXCEPT !.player_states[event.id].arms_heading =
                            clamp_turn_angle(st.arms_heading + event.delta),
                        !.impls[event.id].intent.turn_arms_angle =
                            RemainingTurn(intended, event.delta, MAX_ARMS_TURN_RATE)]
      [] event.tag = "Hit" -> ApplyHit(g, event)
      [] event.tag = "AttackAdvanced" ->
           [g EXCEPT !.attacks =
               [i \in 1..Len(g.attacks) |->
                   IF g.attacks[i].id = event.id
                   THEN [g.attacks[i] EXCEPT !.pos = event.pos]
                   ELSE g.attacks[i]]]
      [] event.tag = "AttackMissed" ->
           [g EXCEPT !.attacks = RemoveAttack(g.attacks, event.id)]
      [] event.tag = "AttackCreated" ->
           [g EXCEPT !.attacks = Append(g.attacks, event.attack),
                     !.player_states[event.owner].attack_cooldown = ATTACK_COOLDOWN,
                     !.impls[event.owner].intent.attack = FALSE]

RECURSIVE advance_game_state(_, _)
\* fn advance_game_state
advance_game_state(g, events) ==
    IF events = <<>> THEN g
    ELSE advance_game_state(ApplyEvent(g, Head(events)), Tail(events))

\* ------------------------------------------------------------------------
\* game.rs: run_players
\* ------------------------------------------------------------------------

PlayerEvent(kind, about) == [kind |-> kind, about |-> about]

RECURSIVE game_events_to_player_events(_, _)
\* fn game_events_to_player_events
game_events_to_player_events(st, events) ==
    IF events = <<>> THEN <<>>
    ELSE LET e == Head(events)
             mine ==
               CASE e.tag = "Tick" -> <<PlayerEvent("Tick", e.n)>>
                 [] e.tag = "RoundStarted" -> <<PlayerEvent("RoundStarted", e.round)>>
                 [] e.tag = "Hit" ->
                      IF st.id = e.victim
                      THEN <<PlayerEvent("HitBy", e.owner)>>
                           \o (IF ~alive(st) THEN <<PlayerEvent("Death", None)>>
                               ELSE <<>>)
                      ELSE IF st.id = e.owner
                           THEN <<PlayerEvent("AttackHit", e.victim)>>
                           ELSE <<>>
                 [] OTHER -> <<>>
         IN mine \o game_events_to_player_events(st, Tail(events))

\* fn can_spot
can_spot(origin, view_angle, target, player_radius, angle_of_vision) ==
    LET view_sector == Sector(view_angle, angle_of_vision \div 2)
        d == dist(origin, target)
        alpha == AtanRatio(player_radius, d)
        angle == normalize_absolute_angle(angle_between(origin, target))
        target_sector == Sector(angle, alpha)
    IN overlaps(view_sector, target_sector)

RECURSIVE EnemySeenEvents(_, _, _)
\* run_players: the EnemySeen events of one character, over player_positions
EnemySeenEvents(g, id, others) ==
    IF others = <<>> THEN <<>>
    ELSE LET other == Head(others)
             st == g.player_states[id]
         IN (IF /\ other # id
                /\ can_spot(st.pos, effective_head_heading(st),
                            g.player_states[other].pos, PLAYER_RADIUS,
                            ANGLE_OF_VISION)
             THEN <<PlayerEvent("EnemySeen", other)>>
             ELSE <<>>)
            \o EnemySeenEvents(g, id, Tail(others))

RECURSIVE dispatch_player_events_swallow(_, _, _)
RECURSIVE dispatch_player_events(_, _, _)
\* fn dispatch_player_events: [ok, commands, calls], calls being the
\* on_event calls made, each with its outcome
\* dispatch_player_events if it went on after a failed call
dispatch_player_events_swallow(id, player_events, script) ==
    IF player_events = <<>> THEN [ok |-> TRUE, commands |-> <<>>, calls |-> <<>>]
    ELSE LET e == Head(player_events)
             r == on_event(script, e.kind)
             call == [id |-> id, kind |-> e.kind, ok |-> r.ok]
             rest == dispatch_player_events_swallow(id, Tail(player_events), script)
         IN [ok |-> rest.ok,
             commands |-> r.value \o rest.commands,
             calls |-> <<call>> \o rest.calls]

dispatch_player_events(id, player_events, script) ==
    IF player_events = <<>> THEN [ok |-> TRUE, commands |-> <<>>, calls |-> <<>>]
    ELSE LET e == Head(player_events)
             r == on_event(script, e.kind)
             call == [id |-> id, kind |-> e.kind, ok |-> r.ok]
         IN IF ~r.ok
            THEN [ok |-> FALSE, commands |-> <<>>, calls |-> <<call>>]
            ELSE LET rest == dispatch_player_events(id, Tail(player_events), script)
                 IN [ok |-> rest.ok,
                     commands |-> r.value \o rest.commands,
                     calls |-> <<call>> \o rest.calls]

RECURSIVE InsertByKey_unstable(_, _)
\* an insertion before the commands of the same index
InsertByKey_unstable(sorted, cmd) ==
    IF sorted = <<>> THEN <<cmd>>
    ELSE IF CommandIndex(Head(sorted)) < CommandIndex(cmd)
         THEN <<Head(sorted)>> \o InsertByKey_unstable(Tail(sorted), cmd)
         ELSE <<cmd>> \o sorted

RECURSIVE InsertByKey(_, _)
\* a stable insertion: after every command whose index is not larger
InsertByKey(sorted, cmd) ==
    IF sorted = <<>> THEN <<cmd>>
    ELSE IF CommandIndex(Head(sorted)) <= CommandIndex(cmd)
         THEN <<Head(sorted)>> \o InsertByKey(Tail(sorted), cmd)
         ELSE <<cmd>> \o sorted

RECURSIVE SortByKey(_, _)
SortByKey(sorted, rest) ==
    IF rest = <<>> THEN sorted
    ELSE SortByKey(InsertByKey(sorted, Head(rest)), Tail(rest))

\* fn reduce_commands: commands.sort_by_key(|cmd| cmd.index()), a stable sort
reduce_commands(commands) == SortByKey(<<>>, commands)

\* run_players: one arm of the match over a command
ApplyCommand(intent, st, cmd) ==
    CASE cmd.tag = "Attack" -> [intent EXCEPT !.attack = TRUE]
      [] cmd.tag = "Turn" -> [intent EXCEPT !.turn_angle = cmd.arg]
      [] cmd.tag = "TurnHead" ->
           [intent EXCEPT !.turn_head_angle =
               clamp_turn_angle(st.head_heading + cmd.arg) - st.head_heading]
      [] cmd.tag = "TurnArms" ->
           [intent EXCEPT !.turn_arms_angle =
               clamp_turn_angle(st.arms_heading + cmd.arg) - st.arms_heading]
      [] cmd.tag = "Move" ->
           [intent EXCEPT !.direction = cmd.dir, !.distance = cmd.arg]

RECURSIVE ApplyCommands(_, _, _)
\* run_players: for cmd in commands.iter()
ApplyCommands(intent, st, commands) ==
    IF commands = <<>> THEN intent
    ELSE ApplyCommands(ApplyCommand(intent, st, Head(commands)), st, Tail(commands))

\* run_players: the events one character is sent in a tick
EventsFor(g, id, events, ord) ==
    game_events_to_player_events(g.player_states[id], events)
    \o EnemySeenEvents(g, id, ord)

RECURSIVE RunPlayersFrom(_, _, _, _, _)
\* run_players: the loop over player_states from the characters in rest
\* on; an error ends it at once
RunPlayersFrom(g, events, ord, rest, calls) ==
    IF rest = <<>> THEN [ok |-> TRUE, game |-> g, calls |-> calls]
    ELSE LET id == Head(rest)
             st == g.player_states[id]
             d == dispatch_player_events(id, EventsFor(g, id, events, ord),
                                         g.impls[id].script)
         IN IF ~d.ok
            THEN [ok |-> FALSE, game |-> g, calls |-> calls \o d.calls]
            ELSE RunPlayersFrom(
                     [g EXCEPT !.impls[id].intent =
                         ApplyCommands(@, st, reduce_commands(d.commands))],
                     events, ord, Tail(rest), calls \o d.calls)

\* fn run_players
run_players(g, events, ord) == RunPlayersFrom(g, events, ord, ord, <<>>)


\* ------------------------------------------------------------------------
\* The state machine: main's setup, run_game, run_round and step
\* ------------------------------------------------------------------------

VARIABLES
    game,           \* the Game struct
    event_manager,  \* run_game's EventManager
    order,          \* iteration order of game.player_states (a HashMap)
    pc,             \* the position of the game thread
    next_round,     \* run_game's loop variable
    cancel,         \* the AtomicBool the other thread sets
    sent,           \* the batches sent on game_writer so far
    result,         \* what run_game returned: "none" before it returns
    last_add,       \* what the last add_lua_player call returned
    add_errors,     \* the number of failed add_lua_player calls
    calls,          \* the on_event calls of the last run_players
    replay,         \* the content of the "events" file, <<>> before it is written
    run,            \* which run of the program this is, 1 or 2
    first_run,      \* the batches the first run sent, <<>> during the first run
    fn_in,          \* the arguments of a function checked on its own
    fn_out          \* its result

\* the variables only the specifications besides Spec change
aux == <<run, first_run, fn_in, fn_out>>

vars ==
    <<game, event_manager, order, pc, next_round, cancel, sent, result,
      last_add, add_errors, calls, replay, run, first_run, fn_in, fn_out>>

\* the positions thread_rng can give the characters of a round: one point
\* per id.  Far: nobody in reach of anybody.  Close: 0 and 1 within
\* collision and hit range of each other.  Wall: 0 as near the upper wall
\* as a round can start (PLAYER_RADIUS + 5.0 from it), 1 beside it out of
\* collision range.
LayoutFar ==
    <<Point(3000, 3000), Point(9000, 3000), Point(3000, 9000), Point(9000, 9000)>>

LayoutClose ==
    <<Point(3000, 3000), Point(3000, 2800), Point(3200, 3000), Point(9000, 9000)>>

LayoutWall ==
    <<Point(300, 300), Point(860, 300), Point(300, 860), Point(860, 860)>>

Layouts == {LayoutFar, LayoutClose, LayoutWall}

\* the orders a HashMap over the ids can iterate in
Orders(ids) ==
    {s \in [1..Cardinality(ids) -> ids] :
        \A i, j \in 1..Cardinality(ids) : i # j => s[i] # s[j]}

Init ==
    /\ game = NewGame
    /\ event_manager = NewEventManager
    /\ order = <<>>
    /\ pc = "setup"
    /\ next_round = 1
    /\ cancel = FALSE
    /\ sent = <<>>
    /\ result = "none"
    /\ last_add = "none"
    /\ add_errors = 0
    /\ calls = <<>>
    /\ replay = <<>>
    /\ run = 1
    /\ first_run = <<>>
    /\ fn_in = <<>>
    /\ fn_out = <<>>

\* Game::add_lua_player: what it returns for a character directory
AddResult(dir) ==
    IF ~dir.meta_ok THEN "meta"
    ELSE IF ~dir.entry_ok THEN "entrypoint"
    ELSE IF ~dir.lib_ok THEN "library"
    ELSE "ok"

\* add_lua_player if the state were inserted before the library registers
add_lua_player_partial(g, dir) ==
    LET id == Cardinality(DOMAIN g.player_states)
        with_state ==
            [g EXCEPT !.player_states = (id :> NewState(id)) @@ g.player_states]
    IN IF ~dir.meta_ok \/ ~dir.entry_ok THEN g
       ELSE IF ~dir.lib_ok THEN with_state
       ELSE [with_state EXCEPT !.impls = (id :> [script |-> dir.script,
                                                intent |-> DefaultIntent]) @@ g.impls]

\* Game::add_lua_player: the game afterwards
add_lua_player(g, dir) ==
    IF AddResult(dir) # "ok" THEN g
    ELSE LET id == Cardinality(DOMAIN g.player_states)
         IN [g EXCEPT !.player_states = (id :> NewState(id)) @@ g.player_states,
                      !.impls = (id :> [script |-> dir.script,
                                        intent |-> DefaultIntent]) @@ g.impls]

\* a call of Game::add_lua_player that succeeds
AddLuaPlayerOk ==
    /\ pc = "setup"
    /\ Cardinality(Ids(game)) < MaxPlayers
    /\ \E dir \in CharacterDirs :
          /\ AddResult(dir) = "ok"
          /\ game' = add_lua_player(game, dir)
          /\ last_add' = AddResult(dir)
    /\ UNCHANGED <<aux, event_manager, order, pc, next_round, cancel, sent, result,
                   add_errors, calls, replay>>

\* a call of Game::add_lua_player that fails
AddLuaPlayerErr ==
    /\ pc = "setup"
    /\ add_errors < MaxAddErrors
    /\ \E dir \in CharacterDirs :
          /\ AddResult(dir) # "ok"
          /\ game' = add_lua_player(game, dir)
          /\ last_add' = AddResult(dir)
    /\ add_errors' = add_errors + 1
    /\ UNCHANGED <<aux, event_manager, order, pc, next_round, cancel, sent, result,
                   calls, replay>>

\* run_game is entered: EventManager::new; the maps are not changed from
\* here on, so their iteration order is fixed, and the results of the
\* add_lua_player calls are no longer looked at
StartGame ==
    /\ pc = "setup"
    /\ order' \in Orders(Ids(game))
    /\ event_manager' = NewEventManager
    /\ next_round' = 1
    /\ pc' = "game_loop"
    /\ last_add' = "none"
    /\ add_errors' = 0
    /\ UNCHANGED <<aux, game, cancel, sent, result, calls, replay>>

\* the other thread sets the cancel flag
Cancel ==
    /\ pc \notin {"setup", "done"}
    /\ ~cancel
    /\ cancel' = TRUE
    /\ UNCHANGED <<aux, game, event_manager, order, pc, next_round, sent, result,
                   last_add, add_errors, calls, replay>>

\* run_game: one iteration of for round in 1..max_rounds + 1
RunGameLoop ==
    /\ pc = "game_loop"
    /\ pc' = IF next_round > max_rounds \/ cancel THEN "write_events"
             ELSE "init_round"
    /\ UNCHANGED <<aux, game, event_manager, order, next_round, cancel, sent, result,
                   last_add, add_errors, calls, replay>>

RECURSIVE ResetAll(_, _, _)
\* Game::init_round: the loop over player_states
ResetAll(g, ord, layout) ==
    IF ord = <<>> THEN g
    ELSE LET id == Head(ord)
         IN ResetAll([g EXCEPT !.player_states[id] = ResetState(@, layout[id + 1])],
                     Tail(ord), layout)

\* Game::init_round: the game afterwards
init_round(g, round, ord, layout) ==
    LET cleared == [g EXCEPT !.tick = 0, !.round = round,
                             !.round_state = Ongoing, !.attacks = <<>>]
        reset == ResetAll(cleared, ord, layout)
    IN [reset EXCEPT !.impls =
           [id \in DOMAIN g.impls |-> [g.impls[id] EXCEPT !.intent = DefaultIntent]]]

\* Game::init_round: the players of its RoundStarted event
RoundPlayers(ord, layout) ==
    [i \in 1..Len(ord) |-> [id |-> ord[i], pos |-> layout[ord[i] + 1]]]

\* run_round is entered: Game::init_round with the positions drawn
InitRound ==
    /\ pc = "init_round"
    /\ \E layout \in Layouts :
          /\ game' = init_round(game, next_round, order, layout)
          /\ event_manager' =
                em_init_round(event_manager, next_round, RoundPlayers(order, layout))
    /\ pc' = "round_loop"
    /\ UNCHANGED <<aux, order, next_round, cancel, sent, result, last_add,
                   add_errors, calls, replay>>

\* run_round without the cancel check
RoundLoop_ignore_cancel ==
    /\ pc = "round_loop"
    /\ game.tick < MaxTicks
    /\ pc' = "init_tick"
    /\ UNCHANGED <<aux, game, event_manager, order, next_round, cancel, sent,
                   result, last_add, add_errors, calls, replay>>

\* run_round: the head of the loop, the cancel check
RoundLoop ==
    /\ pc = "round_loop"
    /\ cancel \/ game.tick < MaxTicks
    /\ IF cancel
       THEN /\ pc' = "game_loop"
            /\ next_round' = next_round + 1
       ELSE /\ pc' = "init_tick"
            /\ UNCHANGED next_round
    /\ UNCHANGED <<aux, game, event_manager, order, cancel, sent, result, last_add,
                   add_errors, calls, replay>>

\* step: event_manager.init_tick(game.tick)
InitTick ==
    /\ pc = "init_tick"
    /\ event_manager' = em_init_tick(event_manager, game.tick)
    /\ pc' = "check_for_round_end"
    /\ UNCHANGED <<aux, game, order, next_round, cancel, sent, result, last_add,
                   add_errors, calls, replay>>

\* step: check_for_round_end(game, event_manager)
CheckForRoundEnd ==
    /\ pc = "check_for_round_end"
    /\ event_manager' = record_all(event_manager, check_for_round_end(game))
    /\ pc' = "transition_players"
    /\ UNCHANGED <<aux, game, order, next_round, cancel, sent, result, last_add,
                   add_errors, calls, replay>>

\* step: transition_players(game, event_manager)
TransitionPlayers ==
    /\ pc = "transition_players"
    /\ event_manager' = record_all(event_manager, transition_players(game, order))
    /\ pc' = "create_attacks"
    /\ UNCHANGED <<aux, game, order, next_round, cancel, sent, result, last_add,
                   add_errors, calls, replay>>

\* create_attacks if it reset the cooldown of the attackers on the spot
CreateAttacks_eager ==
    /\ pc = "create_attacks"
    /\ LET r == create_attacks(game, order)
       IN /\ event_manager' = record_all(event_manager, r.events)
          /\ game' = [game EXCEPT
                !.attack_ids = r.next,
                !.player_states =
                   [id \in Ids(game) |->
                      IF will_attack(game, id)
                      THEN [game.player_states[id] EXCEPT
                              !.attack_cooldown = ATTACK_COOLDOWN]
                      ELSE game.player_states[id]]]
    /\ pc' = "transition_attacks"
    /\ UNCHANGED <<aux, order, next_round, cancel, sent, result, last_add,
                   add_errors, calls, replay>>

\* step: create_attacks(game, event_manager)
CreateAttacks ==
    /\ pc = "create_attacks"
    /\ LET r == create_attacks(game, order)
       IN /\ event_manager' = record_all(event_manager, r.events)
          /\ game' = [game EXCEPT !.attack_ids = r.next]
    /\ pc' = "transition_attacks"
    /\ UNCHANGED <<aux, order, next_round, cancel, sent, result, last_add,
                   add_errors, calls, replay>>

\* step: transition_attacks(game, event_manager)
TransitionAttacks ==
    /\ pc = "transition_attacks"
    /\ event_manager' = record_all(event_manager, transition_attacks(game, order))
    /\ pc' = "advance_game_state"
    /\ UNCHANGED <<aux, game, order, next_round, cancel, sent, result, last_add,
                   add_errors, calls, replay>>

\* step: advance_game_state(game, &step_events.events)
AdvanceGameState ==
    /\ pc = "advance_game_state"
    /\ game' = advance_game_state(game, event_manager.current_events)
    /\ pc' = "run_players"
    /\ UNCHANGED <<aux, event_manager, order, next_round, cancel, sent, result,
                   last_add, add_errors, calls, replay>>

\* step: run_players(game, &step_events.events)?; an error leaves step,
\* run_round and run_game through the ? operators
RunPlayers ==
    /\ pc = "run_players"
    /\ LET r == run_players(game, event_manager.current_events, order)
       IN /\ game' = r.game
          /\ calls' = r.calls
          /\ pc' = IF r.ok THEN "send" ELSE "done"
          /\ result' = IF r.ok THEN result ELSE "err"
    /\ UNCHANGED <<aux, event_manager, order, next_round, cancel, sent, last_add,
                   add_errors, replay>>

\* step: game_writer.send(step_events.clone()), and run_round's match on
\* game.round_state
Send ==
    /\ pc = "send"
    /\ sent' = Append(sent, event_manager.current_events)
    /\ IF game.round_state.tag = "Ongoing"
       THEN /\ pc' = "round_loop"
            /\ UNCHANGED next_round
       ELSE /\ pc' = "game_loop"
            /\ next_round' = next_round + 1
    /\ UNCHANGED <<aux, game, event_manager, order, cancel, result, last_add,
                   add_errors, calls, replay>>

\* run_game: the events file is written and Ok(()) returned
WriteEvents ==
    /\ pc = "write_events"
    /\ replay' = event_manager.all_events
    /\ result' = "ok"
    /\ pc' = "done"
    /\ UNCHANGED <<aux, game, event_manager, order, next_round, cancel, sent,
                   last_add, add_errors, calls>>

Next ==
    \/ AddLuaPlayerOk
    \/ AddLuaPlayerErr
    \/ StartGame
    \/ Cancel
    \/ RunGameLoop
    \/ InitRound
    \/ RoundLoop
    \/ InitTick
    \/ CheckForRoundEnd
    \/ TransitionPlayers
    \/ CreateAttacks
    \/ TransitionAttacks
    \/ AdvanceGameState
    \/ RunPlayers
    \/ Send
    \/ WriteEvents

Spec == Init /\ [][Next]_vars


\* ------------------------------------------------------------------------
\* What a game has recorded so far.
\* ------------------------------------------------------------------------

RECURSIVE Flatten(_)
Flatten(batches) ==
    IF batches = <<>> THEN <<>> ELSE Head(batches) \o Flatten(Tail(batches))

\* the stages of step after init_tick
TickStages ==
    {"check_for_round_end", "transition_players", "create_attacks",
     "transition_attacks", "advance_game_state", "run_players", "send"}

\* the events recorded into the current batch and not sent yet
Unsent ==
    IF \/ pc \in TickStages
       \/ pc \in {"round_loop", "init_tick"} /\ game.tick = 0
       \/ pc = "done" /\ result = "err"
    THEN event_manager.current_events
    ELSE <<>>

\* every event recorded so far, in the order of recording
RecordedEvents == Flatten(sent) \o Unsent

\* the events with one tag in a sequence of events
WithTag(events, tag) == SelectSeq(events, LAMBDA e : e.tag = tag)

\* round r has recorded its RoundStarted event
RoundStartedIn(events, r) ==
    \E i \in 1..Len(events) :
        events[i].tag = "RoundStarted" /\ events[i].round = r

\* the positions in events of the RoundOver events recorded in round r
RoundOversOf(events, r) ==
    {i \in 1..Len(events) :
        /\ events[i].tag = "RoundOver"
        /\ \E j \in 1..(i - 1) :
              /\ events[j].tag = "RoundStarted" /\ events[j].round = r
              /\ \A k \in (j + 1)..(i - 1) : events[k].tag # "RoundStarted"}

\* C1: every round records its round-end event exactly once before the
\* next round starts and never more than once; right after the round-end
\* check of a tick the batch holds RoundOver(Some(c)) when c is the only
\* character with hp > 0, RoundOver(None) when there is none, and no
\* round-end event while two or more are alive.
C1_RoundEndOnce ==
    LET ev == RecordedEvents
        living == living_players(game)
        overs == WithTag(event_manager.current_events, "RoundOver")
    IN /\ \A r \in 1..max_rounds :
             /\ Cardinality(RoundOversOf(ev, r)) <= 1
             /\ RoundStartedIn(ev, r + 1) => Cardinality(RoundOversOf(ev, r)) = 1
       /\ pc = "transition_players" =>
             /\ living = {} => overs = <<EvRoundOver(None)>>
             /\ \A c \in living : living = {c} => overs = <<EvRoundOver(c)>>
             /\ Cardinality(living) >= 2 => overs = <<>>

\* the second round has started after a first round of two characters
\* that one of them won
C1_Witness ==
    LET ev == RecordedEvents
    IN /\ Cardinality(Ids(game)) = 2
       /\ RoundStartedIn(ev, 2)
       /\ \E i \in RoundOversOf(ev, 1) : ev[i].winner # None

\* how many position events a batch holds for one character
PositionCount(batch, id) ==
    Cardinality({i \in 1..Len(batch) :
        batch[i].tag = "PlayerPositionUpdated" /\ batch[i].id = id})

\* C2: in every tick, once transition_players has run, the batch holds
\* exactly one position-updated event for every character alive in that
\* tick, also when its delta is zero because the move was blocked; every
\* batch sent holds exactly one for every character of the game.
C2_OnePositionEventEach ==
    /\ pc \in {"create_attacks", "transition_attacks", "advance_game_state"} =>
          \A id \in living_players(game) :
              PositionCount(event_manager.current_events, id) = 1
    /\ \A k \in 1..Len(sent) :
          \A id \in Ids(game) : PositionCount(sent[k], id) = 1

\* a living character that wants to move is blocked and its one position
\* event has the zero delta
C2_Witness ==
    /\ pc = "create_attacks"
    /\ \E id \in living_players(game) :
          /\ game.impls[id].intent.distance > 0
          /\ \E i \in 1..Len(event_manager.current_events) :
                LET e == event_manager.current_events[i]
                IN /\ e.tag = "PlayerPositionUpdated"
                   /\ e.id = id
                   /\ e.delta = PointZero

\* one step of the game as C3 sees it
C3_Step ==
    \A id \in Ids(game) \cap Ids(game') :
        LET before == game.player_states[id]
            after == game'.player_states[id]
        IN IF pc = "init_round" /\ pc' = "round_loop"
           THEN after.hp = INITIAL_HP
           ELSE /\ after.hp <= before.hp
                /\ before.hp <= 0 => id \notin living_players(game')

\* C3: within a round a character's hit points never increase from one
\* step to the next; a character whose hit points are zero or less is not
\* among living_players in any later step of the round; only the reset of
\* the next round's init_round brings the hit points back to INITIAL_HP.
C3_HpNeverRises == [][C3_Step]_vars

\* a tick runs while one character of two is dead and the other alive
C3_Witness ==
    /\ pc = "create_attacks"
    /\ \E id \in Ids(game) :
          /\ game.player_states[id].hp <= 0
          /\ id \notin living_players(game)
          /\ living_players(game) # {}

\* ------------------------------------------------------------------------
\* Functions checked on their own: fn_in holds the arguments, fn_out the
\* result, and the game stays as constructed.
\* ------------------------------------------------------------------------

\* the variables of the game
main ==
    <<game, event_manager, order, next_round, cancel, sent, result, last_add,
      add_errors, calls, replay, run, first_run>>

\* the game as constructed, with no character added
NoGame ==
    /\ game = NewGame
    /\ event_manager = NewEventManager
    /\ order = <<>>
    /\ next_round = 1
    /\ cancel = FALSE
    /\ sent = <<>>
    /\ result = "none"
    /\ last_add = "none"
    /\ add_errors = 0
    /\ calls = <<>>
    /\ replay = <<>>
    /\ run = 1
    /\ first_run = <<>>

\* the longest list of commands an adapter returns in a tick
MaxCommands == 3

\* the commands an adapter returns
CommandAlphabet ==
    {Move("Forward", 50), Move("Left", 7), Attack, Turn(10), Turn(-4),
     TurnHead(1000), TurnArms(-6)}

CommandLists == UNION {[1..n -> CommandAlphabet] : n \in 0..MaxCommands}

InitCommands ==
    /\ NoGame
    /\ pc = "commands_returned"
    /\ fn_in \in CommandLists
    /\ fn_out = [sorted |-> <<>>, intent |-> DefaultIntent]

\* run_players: let commands = reduce_commands(&mut commands)
ReduceCommands ==
    /\ pc = "commands_returned"
    /\ fn_out' = [fn_out EXCEPT !.sorted = reduce_commands(fn_in)]
    /\ pc' = "commands_sorted"
    /\ UNCHANGED <<main, fn_in>>

\* run_players: the loop over the commands, on a character as constructed
ApplySortedCommands ==
    /\ pc = "commands_sorted"
    /\ fn_out' = [fn_out EXCEPT
                     !.intent = ApplyCommands(DefaultIntent, NewState(0), fn_out.sorted)]
    /\ pc' = "commands_applied"
    /\ UNCHANGED <<main, fn_in>>

NextCommands == ReduceCommands \/ ApplySortedCommands

SpecCommands == InitCommands /\ [][NextCommands]_vars

\* the priority index C4 gives each kind of command
C4_Priority(cmd) ==
    CASE cmd.tag = "Move" -> 0
      [] cmd.tag = "Attack" -> 1
      [] cmd.tag = "Turn" -> 2
      [] cmd.tag = "TurnHead" -> 3
      [] cmd.tag = "TurnArms" -> 4

\* the commands of one priority, in the order they were returned
C4_OfPriority(commands, k) ==
    SelectSeq(commands, LAMBDA c : C4_Priority(c) = k)

\* the last command with a tag among the returned ones
C4_Last(commands, tag) ==
    LET of == WithTag(commands, tag) IN of[Len(of)]

\* C4: the commands an adapter returns in a tick are applied in order of
\* non-decreasing priority (Move 0, Attack 1, Turn 2, TurnHead 3,
\* TurnArms 4) whatever the order they were returned in; every returned
\* command is applied; commands of equal priority keep their returned
\* order, so the last one of a kind decides the intent.
C4_PriorityOrder ==
    /\ pc \in {"commands_sorted", "commands_applied"} =>
          fn_out.sorted =
              C4_OfPriority(fn_in, 0) \o C4_OfPriority(fn_in, 1)
              \o C4_OfPriority(fn_in, 2) \o C4_OfPriority(fn_in, 3)
              \o C4_OfPriority(fn_in, 4)
    /\ pc = "commands_applied" =>
          /\ fn_out.intent.attack = (WithTag(fn_in, "Attack") # <<>>)
          /\ IF WithTag(fn_in, "Move") = <<>>
             THEN /\ fn_out.intent.distance = DefaultIntent.distance
                  /\ fn_out.intent.direction = DefaultIntent.direction
             ELSE /\ fn_out.intent.distance = C4_Last(fn_in, "Move").arg
                  /\ fn_out.intent.direction = C4_Last(fn_in, "Move").dir
          /\ fn_out.intent.turn_angle =
                IF WithTag(fn_in, "Turn") = <<>> THEN DefaultIntent.turn_angle
                ELSE C4_Last(fn_in, "Turn").arg

\* Attack, Move, Turn returned in this order are applied as Move, Attack,
\* Turn
C4_Witness ==
    /\ pc = "commands_applied"
    /\ fn_in = <<Attack, Move("Forward", 50), Turn(10)>>
    /\ fn_out.sorted = <<Move("Forward", 50), Attack, Turn(10)>>
    /\ fn_out.intent.distance = 50

\* two turns and then a move: the second turn decides the intent
C4_WitnessLastWins ==
    /\ pc = "commands_applied"
    /\ fn_in = <<Turn(10), Turn(-4), Move("Left", 7)>>
    /\ fn_out.intent.turn_angle = -4

\* the offsets of the head from the body a character can have, all within
\* the angle of action
HeadOffsets == {-ANGLE_OF_ACTION, -150, -80, -5, 0, 5, 80, 150, ANGLE_OF_ACTION}

\* the head turns asked for, 1000 being 10 radians
HeadAngles == {-1000, -200, -11, -10, -9, -1, 0, 1, 9, 10, 11, 200, 1000}

\* the character whose head is turned
HeadState == [NewState(0) EXCEPT !.head_heading = fn_in.current]

InitHeadTurn ==
    /\ NoGame
    /\ pc = "head_turn_asked"
    /\ fn_in \in [current : HeadOffsets, angle : HeadAngles]
    /\ fn_out = [pending |-> fn_in.angle, delta |-> 0]

\* run_players, Command::TurnHead: the pending request of the intent
TurnHeadCommand ==
    /\ pc = "head_turn_asked"
    /\ fn_out' = [fn_out EXCEPT !.pending =
           ApplyCommand(DefaultIntent, HeadState, TurnHead(fn_in.angle)).turn_head_angle]
    /\ pc' = "head_turn_pending"
    /\ UNCHANGED <<main, fn_in>>

\* transition_players: transition_heads on the pending request, which is
\* the one of the command or any other
TransitionHeads ==
    /\ pc \in {"head_turn_asked", "head_turn_pending"}
    /\ fn_out' = [fn_out EXCEPT !.delta = transition_heads(HeadState, fn_out.pending).delta]
    /\ pc' = "head_turned"
    /\ UNCHANGED <<main, fn_in>>

NextHeadTurn == TurnHeadCommand \/ TransitionHeads

SpecHeadTurn == InitHeadTurn /\ [][NextHeadTurn]_vars

\* C6: for any pending head-turn request and any current head offset the
\* head-turned delta of a tick has magnitude at most MAX_HEAD_TURN_RATE and
\* is the smaller of the rate-clamped request and the amount that keeps
\* the offset within the angle of action; a request of 10 radians from
\* offset 0 gives exactly MAX_HEAD_TURN_RATE.
C6_HeadTurnBounded ==
    pc = "head_turned" =>
        LET request == fn_out.pending
            by_rate == IF request > MAX_HEAD_TURN_RATE THEN MAX_HEAD_TURN_RATE
                       ELSE IF request < -MAX_HEAD_TURN_RATE THEN -MAX_HEAD_TURN_RATE
                       ELSE request
            room == IF by_rate >= 0 THEN ANGLE_OF_ACTION - fn_in.current
                    ELSE -ANGLE_OF_ACTION - fn_in.current
        IN /\ Abs(fn_out.delta) <= MAX_HEAD_TURN_RATE
           /\ fn_out.delta = (IF Abs(by_rate) <= Abs(room) THEN by_rate ELSE room)
           /\ Abs(fn_in.current + fn_out.delta) <= ANGLE_OF_ACTION
           /\ fn_in.current = 0 /\ fn_in.angle = 1000 =>
                 fn_out.delta = MAX_HEAD_TURN_RATE

\* a head turn of 10 radians asked for at offset 0 through the command
C6_Witness ==
    /\ pc = "head_turned"
    /\ fn_in = [current |-> 0, angle |-> 1000]
    /\ fn_out.pending = ANGLE_OF_ACTION
    /\ fn_out.delta = MAX_HEAD_TURN_RATE

\* a head turn cut short by the angle of action
C6_WitnessCut ==
    /\ pc = "head_turned"
    /\ fn_in.current = 150
    /\ fn_out.delta = ANGLE_OF_ACTION - 150

\* scripts for the adapter on its own
ScriptRoundStart == "on_round_started" :> Ret(<<Attack>>)

ScriptRoundStartFails == "on_round_started" :> RetError

ScriptRoundEndNil == "on_round_ended" :> RetNil

ScriptAllNil ==
    [name \in {"on_tick", "on_round_started", "on_round_ended", "on_enemy_seen",
               "on_hit_by", "on_attack_hit", "on_death", "on_enemy_death",
               "on_round_drawn", "on_round_won"} |-> RetNil]

LuaScripts ==
    GameScripts
    \cup {ScriptRoundStart, ScriptRoundStartFails, ScriptRoundEndNil, ScriptAllNil}

InitLua ==
    /\ NoGame
    /\ pc = "event_sent"
    /\ fn_in \in [script : LuaScripts, kind : EventKinds]
    /\ fn_out = <<>>

\* LuaImpl::on_event on one event
OnEvent ==
    /\ pc = "event_sent"
    /\ fn_out' = on_event(fn_in.script, fn_in.kind)
    /\ pc' = "event_handled"
    /\ UNCHANGED <<main, fn_in>>

NextLua == OnEvent

SpecLua == InitLua /\ [][NextLua]_vars

\* the handler each event kind is for
HandlerFor(kind) ==
    CASE kind = "Tick" -> "on_tick"
      [] kind = "RoundStarted" -> "on_round_started"
      [] kind = "RoundEnded" -> "on_round_ended"
      [] kind = "EnemySeen" -> "on_enemy_seen"
      [] kind = "HitBy" -> "on_hit_by"
      [] kind = "AttackHit" -> "on_attack_hit"
      [] kind = "Death" -> "on_death"
      [] kind = "EnemyDied" -> "on_enemy_death"
      [] kind = "RoundDrawn" -> "on_round_drawn"
      [] kind = "RoundWon" -> "on_round_won"

\* C9: for every event kind, when the script defines no handler for that
\* event, on_event returns success with an empty command list, and when
\* the handler returns nil the command list is empty too.
C9_UnhandledIsEmpty ==
    pc = "event_handled" =>
        LET name == HandlerFor(fn_in.kind)
        IN /\ name \notin DOMAIN fn_in.script => fn_out = Ok(<<>>)
           /\ name \in DOMAIN fn_in.script /\ fn_in.script[name] = RetNil =>
                 fn_out = Ok(<<>>)

\* C9 for every event kind but RoundEnded
C9_UnhandledIsEmptyButRoundEnded ==
    pc = "event_handled" /\ fn_in.kind # "RoundEnded" => C9_UnhandledIsEmpty

\* an event without a handler, and a handler that returns nil
C9_Witness ==
    /\ pc = "event_handled"
    /\ fn_in.script = ScriptRover
    /\ fn_in.kind \in {"Death", "Tick"}
    /\ fn_out = Ok(<<>>)

\* the rounds recorded so far that ended with id as the winner, in the
\* game state: a RoundOver event of the current batch counts once
\* advance_game_state has run
RoundsEndedWonBy(id) ==
    LET ev == RecordedEvents
        won == {i \in 1..Len(ev) : ev[i].tag = "RoundOver" /\ ev[i].winner = id}
        pending ==
            /\ pc \in {"transition_players", "create_attacks",
                       "transition_attacks", "advance_game_state"}
            /\ \E i \in 1..Len(event_manager.current_events) :
                  /\ event_manager.current_events[i].tag = "RoundOver"
                  /\ event_manager.current_events[i].winner = id
    IN Cardinality(won) - (IF pending THEN 1 ELSE 0)

\* one step of the game as C7 sees it
C7_Step ==
    \A id \in Ids(game) \cap Ids(game') :
        game'.player_states[id].rounds_won =
            game.player_states[id].rounds_won
            + (IF game.round_state = Ongoing /\ game'.round_state = Won(id)
               THEN 1 ELSE 0)

FailedCalls == {i \in 1..Len(calls) : ~calls[i].ok}

\* C8: when an on_event call fails in a tick, step, run_round and run_game
\* return the error: the failed call is the last call made, the batch of
\* the tick is not sent, the events file is not written, and no step of
\* the game follows the error.
C8_ErrorIsTerminal ==
    /\ [](FailedCalls # {} =>
              /\ result = "err"
              /\ pc = "done"
              /\ FailedCalls = {Len(calls)}
              /\ replay = <<>>)
    /\ [][result = "err" =>
              UNCHANGED <<game, event_manager, order, pc, next_round, sent,
                          result, calls, replay>>]_vars

\* the first of two characters fails on being hit, after its tick handler
\* was called, and the second is not called in that tick
C8_Witness ==
    /\ result = "err"
    /\ Cardinality(Ids(game)) = 2
    /\ Len(calls) >= 2
    /\ \E id \in Ids(game) : \A i \in 1..Len(calls) : calls[i].id # id

\* a step that is a call of add_lua_player
AddStep == pc = "setup" /\ pc' = "setup"

\* C10: a call of add_lua_player that fails, on the metadata, the
\* entrypoint or the library registration, returns the error and leaves
\* the game as it was; a call that succeeds adds exactly one state and one
\* adapter, under one id that was not in use, and changes nothing else.
C10_AddIsAllOrNothing ==
    [][AddStep =>
          \/ /\ last_add' \in {"meta", "entrypoint", "library"}
             /\ game' = game
          \/ /\ last_add' = "ok"
             /\ \E id \in Ids(game') \ Ids(game) :
                   /\ Ids(game') = Ids(game) \cup {id}
                   /\ DOMAIN game'.impls = DOMAIN game.impls \cup {id}
                   /\ id \notin DOMAIN game.impls
                   /\ game'.player_states[id].id = id
             /\ \A old \in Ids(game) :
                   /\ game'.player_states[old] = game.player_states[old]
                   /\ game'.impls[old] = game.impls[old]
             /\ [game' EXCEPT !.player_states = game.player_states,
                              !.impls = game.impls] = game]_vars

\* a call failed and two calls succeeded
C10_Witness ==
    /\ pc = "setup"
    /\ add_errors = 1
    /\ Cardinality(Ids(game)) = 2
    /\ DOMAIN game.impls = Ids(game)

\* ------------------------------------------------------------------------
\* Two full runs of the program, one after the other, with the same
\* characters and nothing cancelled.
\* ------------------------------------------------------------------------

\* the game of a new process that adds the characters of g again
SameCharacters(g) ==
    [NewGame EXCEPT
        !.player_states = [id \in Ids(g) |-> NewState(id)],
        !.impls = [id \in Ids(g) |->
                      [script |-> g.impls[id].script, intent |-> DefaultIntent]]]

\* the program is run a second time: main adds the same characters and
\* calls run_game; the maps of the new process iterate in an order of
\* their own
Rerun ==
    /\ pc = "done"
    /\ run = 1
    /\ run' = 2
    /\ first_run' = sent
    /\ game' = SameCharacters(game)
    /\ event_manager' = NewEventManager
    /\ order' \in Orders(Ids(game))
    /\ next_round' = 1
    /\ sent' = <<>>
    /\ result' = "none"
    /\ calls' = <<>>
    /\ replay' = <<>>
    /\ pc' = "game_loop"
    /\ UNCHANGED <<cancel, last_add, add_errors, fn_in, fn_out>>

NextTwoRuns ==
    \/ AddLuaPlayerOk
    \/ StartGame
    \/ RunGameLoop
    \/ InitRound
    \/ RoundLoop
    \/ InitTick
    \/ CheckForRoundEnd
    \/ TransitionPlayers
    \/ CreateAttacks
    \/ TransitionAttacks
    \/ AdvanceGameState
    \/ RunPlayers
    \/ Send
    \/ WriteEvents
    \/ Rerun

SpecTwoRuns == Init /\ [][NextTwoRuns]_vars

\* C5: two full runs with the same characters and adapters that return
\* the same commands for the same events send the same sequence of
\* batches: the same events in the same order in each batch, with the
\* same initial positions and the same hit victims.
C5_SameBatches ==
    run = 2 /\ pc = "done" => sent = first_run

\* the start positions a run drew, round by round
StartPositions(batches) ==
    LET started == WithTag(Flatten(batches), "RoundStarted")
    IN [k \in 1..Len(started) |->
           {started[k].players[i] : i \in 1..Len(started[k].players)}]

\* C5 for two runs that also drew the same start positions in every round
C5_SameBatchesSameDraws ==
    StartPositions(sent) = StartPositions(first_run) => C5_SameBatches

\* ------------------------------------------------------------------------
\* The batches and the history
\* ------------------------------------------------------------------------

\* the batches sent so far and the one being recorded, if a tick is running
BatchesSoFar ==
    sent \o (IF pc \in TickStages THEN <<event_manager.current_events>> ELSE <<>>)

\* a batch of tick 0: RoundStarted, then Tick(0), and no other of the two
IsFirstBatch(b) ==
    /\ Len(b) >= 2
    /\ b[1].tag = "RoundStarted"
    /\ b[2] = EvTick(0)
    /\ \A i \in 3..Len(b) : b[i].tag \notin {"RoundStarted", "Tick"}

\* a batch of a tick n > 0: Tick(n) first, and no RoundStarted or other Tick
IsLaterBatch(b) ==
    /\ Len(b) >= 1
    /\ b[1].tag = "Tick"
    /\ b[1].n > 0
    /\ \A i \in 2..Len(b) : b[i].tag \notin {"RoundStarted", "Tick"}

\* C11: in every round the batch of tick 0 holds the RoundStarted event
\* followed by Tick(0); every batch of a tick n > 0 starts with Tick(n) and
\* holds no RoundStarted and no event of an earlier tick (right after
\* init_tick it is Tick(n) alone); every batch holds exactly one Tick event,
\* the one of the tick the game is in.
C11_BatchShape ==
    /\ \A k \in 1..Len(BatchesSoFar) :
          LET b == BatchesSoFar[k]
          IN /\ IsFirstBatch(b) \/ IsLaterBatch(b)
             /\ Len(WithTag(b, "Tick")) = 1
    /\ pc = "check_for_round_end" =>
          LET b == event_manager.current_events
          IN IF game.tick = 0
             THEN /\ Len(b) = 2
                  /\ IsFirstBatch(b)
                  /\ b[1].round = game.round
             ELSE b = <<EvTick(game.tick)>>

\* the second round has sent its batch of tick 0 and a later one
C11_Witness ==
    /\ Len(sent) >= 2
    /\ IsLaterBatch(sent[Len(sent)])
    /\ \E k \in 1..Len(sent) : IsFirstBatch(sent[k]) /\ sent[k][1].round = 2

\* the history the EventManager holds in a game played in a mode:
\* EventManager::new takes no mode and init_round and init_tick always
\* push, so it is the same history in both
HistoryIn(mode) == event_manager.all_events

\* every batch sent before the latest one is in the history
C12_RememberKeepsAll ==
    \A k \in 1..(Len(sent) - 1) :
        \E j \in 1..Len(HistoryIn("Remember")) : HistoryIn("Remember")[j] = sent[k]

\* C12: the event manager has two modes: in Remember mode every past batch
\* is kept in the history, and in Forget mode the history holds no past
\* batch after each tick, so that its size stays bounded.
C12_TwoModes ==
    pc = "round_loop" /\ game.tick > 0 =>
        /\ C12_RememberKeepsAll
        /\ HistoryIn("Forget") = <<>>

\* C13: the history written as the replay log at the end of the game is
\* exactly the sequence of batches sent on the channel: every batch sent,
\* the last one of the last round included, once and in the order of
\* sending, and no other batch.
C13_ReplayIsStream ==
    pc = "done" /\ result = "ok" => replay = sent

\* ------------------------------------------------------------------------
\* C14: one batch per tick, in tick order
\* ------------------------------------------------------------------------
\* the numbers of the Tick events of a batch, in order
TickNumbers(b) ==
    LET ticks == SelectSeq(b, LAMBDA e : e.tag = "Tick")
    IN [i \in 1..Len(ticks) |-> ticks[i].n]

StartsRound(b) == \E i \in 1..Len(b) : b[i].tag = "RoundStarted"

\* every batch sent carries one tick number; a batch that starts a round
\* carries 0 and every other batch the number after its predecessor's; at
\* the head of a round's loop the last game.tick batches are those of the
\* ticks 0 .. game.tick - 1 of this round
C14_TickOrder ==
    /\ \A k \in 1..Len(sent) :
          /\ Len(TickNumbers(sent[k])) = 1
          /\ IF StartsRound(sent[k])
             THEN TickNumbers(sent[k]) = <<0>>
             ELSE /\ k > 1
                  /\ TickNumbers(sent[k])[1] = TickNumbers(sent[k - 1])[1] + 1
    /\ pc = "round_loop" =>
          /\ game.tick <= Len(sent)
          /\ \A i \in 1..game.tick :
                TickNumbers(sent[Len(sent) - game.tick + i]) = <<i - 1>>
          /\ game.tick > 0 => StartsRound(sent[Len(sent) - game.tick + 1])
    /\ pc = "send" => TickNumbers(event_manager.current_events) = <<game.tick - 1>>

\* the channel only grows, by the batch of the tick that ends, and the end
\* of every tick that completes puts exactly one batch on it
C14_Step ==
    /\ sent' # sent =>
          /\ pc = "send"
          /\ sent' = Append(sent, event_manager.current_events)
    /\ (pc = "send" /\ pc' # "send") => Len(sent') = Len(sent) + 1
    /\ (pc = "init_tick" /\ pc' # "init_tick") =>
          event_manager'.current_events[Len(event_manager'.current_events)]
             = EvTick(game.tick)

\* C14: every completed tick sends exactly one batch, the batches are
\* sent in tick order, and within a round the Tick events of successive
\* batches carry the numbers 0, 1, 2, ...
C14_OneBatchPerTick == []C14_TickOrder /\ [][C14_Step]_vars

\* three ticks of one round were sent, numbered 0, 1, 2, and the batch of
\* a later round follows them
C14_Witness ==
    \E k \in 1..(Len(sent) - 3) :
        /\ StartsRound(sent[k])
        /\ TickNumbers(sent[k + 1]) = <<1>>
        /\ TickNumbers(sent[k + 2]) = <<2>>
        /\ \E j \in (k + 3)..Len(sent) : StartsRound(sent[j])

\* ------------------------------------------------------------------------
\* render.rs: the renderer's copy of the characters, folded from the events
\* ------------------------------------------------------------------------

\* GameRenderer::process_event on the character data (drawing left out).
\* RoundStarted replaces the data by CharacterData::new of every character
\* of the snapshot; the events without an effect on the data are Tick,
\* RoundOver, Hit and the attack events
process_event(state, event) ==
    CASE event.tag = "RoundStarted" ->
           LET ids == {event.players[i].id : i \in 1..Len(event.players)}
               pos(id) == (CHOOSE i \in 1..Len(event.players) :
                              event.players[i].id = id)
           IN [id \in ids |->
                 [x |-> event.players[pos(id)].pos.x,
                  y |-> event.players[pos(id)].pos.y,
                  heading |-> 0, head_heading |-> 0, arms_heading |-> 0]]
      [] event.tag = "PlayerPositionUpdated" ->
           [state EXCEPT ![event.id].x = @ + event.delta.x,
                         ![event.id].y = @ + event.delta.y]
      [] event.tag = "PlayerTurned" ->
           [state EXCEPT ![event.id].heading = @ + event.delta]
      [] event.tag = "PlayerHeadTurned" ->
           [state EXCEPT ![event.id].head_heading = @ + event.delta]
      [] event.tag = "PlayerArmsTurned" ->
           [state EXCEPT ![event.id].arms_heading = @ + event.delta]
      [] OTHER -> state

RECURSIVE process_events(_, _, _)
\* GameRenderer::step, the loop over the events of one batch: the first n
\* events processed in order
process_events(state, events, n) ==
    IF n = 0 THEN state
    ELSE process_event(process_events(state, events, n - 1), events[n])

RECURSIVE process_batches(_, _)
\* GameRenderer::step for each of the first k batches received.  The data
\* is evaluated batch by batch, which keeps the evaluation shallow: a
\* renderer without characters holds the empty map
process_batches(batches, k) ==
    IF k = 0 THEN <<>>
    ELSE LET state == process_batches(batches, k - 1)
         IN IF DOMAIN state = {}
            THEN process_events(<<>>, batches[k], Len(batches[k]))
            ELSE process_events(state, batches[k], Len(batches[k]))

\* ------------------------------------------------------------------------
\* C15: folding the deltas reconstructs the state
\* ------------------------------------------------------------------------
\* the batches of the current round: one was sent for each of its ticks
RoundBatches == SubSeq(sent, Len(sent) - game.tick + 1, Len(sent))

\* what a renderer holds that has received the batches of the round, the
\* first of which starts with the RoundStarted snapshot
Rendered == process_batches(RoundBatches, Len(RoundBatches))

\* the game is between two ticks and the batch of the last one was sent
AfterBatch ==
    /\ pc \in {"round_loop", "game_loop", "write_events", "done"}
    /\ result # "err"
    /\ game.tick > 0
    /\ Len(sent) >= game.tick
    /\ RoundBatches[1][1].tag = "RoundStarted"
    /\ RoundBatches[1][1].round = game.round

\* the fold holds for every character the position, the head offset and
\* the arms offset of the game state, and its body heading modulo 2 pi
FoldIsState ==
    AfterBatch =>
        LET rendered == Rendered
        IN /\ DOMAIN rendered = Ids(game)
           /\ \A id \in Ids(game) :
                 LET st == game.player_states[id]
                     data == rendered[id]
                 IN /\ Point(data.x, data.y) = st.pos
                    /\ data.head_heading = st.head_heading
                    /\ data.arms_heading = st.arms_heading
                    /\ data.heading % TWO_PI = st.heading

StageAfter(stage) ==
    CASE stage = "init_tick" -> "check_for_round_end"
      [] stage = "check_for_round_end" -> "transition_players"
      [] stage = "transition_players" -> "create_attacks"
      [] stage = "create_attacks" -> "transition_attacks"
      [] stage = "transition_attacks" -> "advance_game_state"
      [] stage = "advance_game_state" -> "run_players"
      [] stage = "run_players" -> "send"

\* a handler fails in this tick: the ? of step ends the game
HandlerFails ==
    /\ pc = "run_players"
    /\ ~run_players(game, event_manager.current_events, order).ok

C16_Step ==
    \* whatever the flag says, a tick that has started goes from stage to
    \* stage; only the error of a handler ends it early
    /\ (pc \in (TickStages \ {"send"}) \cup {"init_tick"} /\ pc' # pc) =>
          IF HandlerFails THEN pc' = "done" /\ result' = "err"
          ELSE pc' = StageAfter(pc)
    \* and its last stage emits the batch
    /\ (pc = "send" /\ pc' # pc) =>
          /\ sent' = Append(sent, event_manager.current_events)
          /\ pc' \in {"round_loop", "game_loop"}
    \* once the flag is set it stays set, no tick is started
    /\ cancel => cancel'
    /\ (cancel /\ pc = "round_loop") => pc' \in {"round_loop", "game_loop"}
    \* and no round is started
    /\ (cancel /\ pc = "game_loop") => pc' \in {"game_loop", "write_events"}

\* C16: the cancel flag is read only at tick boundaries: a tick that has
\* started runs through all its stages and emits its batch whether the
\* flag is set or not (only a handler's error ends a tick early), and
\* once the flag is set no new tick and no new round is started
C16_CancelAtTickBoundary == [][C16_Step]_vars

\* the flag was set while a tick was in flight (the poll at the head of
\* the loop would have stopped it otherwise), and the tick has reached the
\* stage that emits its batch, in a round that is not over
C16_Witness ==
    /\ cancel
    /\ pc = "send"
    /\ game.tick >= 2
    /\ game.round_state = Ongoing

\* ------------------------------------------------------------------------
\* player/wasm.rs: the WASM adapter, next to the Lua adapter
\* ------------------------------------------------------------------------

\* the export WasmImpl::on_event calls for each event kind
WasmHandlerName(kind) ==
    CASE kind = "Tick" -> "on_tick"
      [] kind = "RoundStarted" -> "on_round_started"
      [] kind = "RoundEnded" -> "on_round_ended"
      [] kind = "EnemySeen" -> "on_enemy_seen"
      [] kind = "HitBy" -> "on_hit_by"
      [] kind = "AttackHit" -> "on_attack_hit"
      [] kind = "Death" -> "on_death"
      [] kind = "EnemyDied" -> "on_enemy_died"
      [] kind = "RoundDrawn" -> "on_round_drawn"
      [] kind = "RoundWon" -> "on_round_won"

\* impl Impl for WasmImpl: on_event, for a component whose exports behave
\* as the handlers of the script do (a handler the script lacks is an
\* export that returns no command).  The exports for Death, RoundEnded,
\* RoundWon and RoundDrawn return nothing: Commands::none()
wasm_on_event(script, kind) ==
    LET export == IF kind = "EnemyDied" THEN "on_enemy_death"
                  ELSE WasmHandlerName(kind)
        returned == call_event_handler(script, export)
    IN IF ~returned.ok THEN Err
       ELSE IF kind \in {"Death", "RoundEnded", "RoundWon", "RoundDrawn"}
            THEN Ok(<<>>)
            ELSE returned

\* one event delivered to a character by each of the two backends: the
\* handlers invoked, in order, and the result handed to the game loop
DeliverEvent ==
    /\ pc = "event_sent"
    /\ fn_out' =
          [lua |-> [handlers |-> <<LuaHandlerName(fn_in.kind)>>,
                    result |-> on_event(fn_in.script, fn_in.kind)],
           wasm |-> [handlers |-> <<WasmHandlerName(fn_in.kind)>>,
                     result |-> wasm_on_event(fn_in.script, fn_in.kind)]]
    /\ pc' = "event_delivered"
    /\ UNCHANGED <<main, fn_in>>

SpecBackends == InitLua /\ [][DeliverEvent]_vars

\* ------------------------------------------------------------------------
\* C17: both backends deliver an event to the handler of the same meaning
\* ------------------------------------------------------------------------
\* the event kind a handler is for, by its name in either backend
HandlerMeaning(name) ==
    CASE name = "on_tick" -> "Tick"
      [] name = "on_round_started" -> "RoundStarted"
      [] name = "on_round_ended" -> "RoundEnded"
      [] name = "on_enemy_seen" -> "EnemySeen"
      [] name = "on_hit_by" -> "HitBy"
      [] name = "on_attack_hit" -> "AttackHit"
      [] name = "on_death" -> "Death"
      [] name \in {"on_enemy_death", "on_enemy_died"} -> "EnemyDied"
      [] name = "on_round_drawn" -> "RoundDrawn"
      [] name = "on_round_won" -> "RoundWon"

DeliveredTo(backend) ==
    [i \in 1..Len(backend.handlers) |-> HandlerMeaning(backend.handlers[i])]

\* C17: each backend delivers every event kind to the one handler of that
\* kind, once: RoundEnded reaches the round-ended handler in both and
\* never the round-started handler, RoundStarted the round-started
\* handler exactly once
C17_SameHandler ==
    pc = "event_delivered" =>
        /\ DeliveredTo(fn_out.lua) = <<fn_in.kind>>
        /\ DeliveredTo(fn_out.wasm) = <<fn_in.kind>>

\* C17 for every event kind but RoundEnded
C17_SameHandlerButRoundEnded ==
    pc = "event_delivered" /\ fn_in.kind # "RoundEnded" => C17_SameHandler

\* the WASM backend alone delivers every kind to its handler
C17_WasmDelivers ==
    pc = "event_delivered" => DeliveredTo(fn_out.wasm) = <<fn_in.kind>>

\* ------------------------------------------------------------------------
\* math_utils.rs: Sector::overlaps on pairs of valid sectors
\* ------------------------------------------------------------------------

\* centres in [0, 2 pi) and half-widths in [0, pi), in hundredths of a
\* radian: arcs in every quadrant, across 0, narrow, wide and of one point
SectorAngles == {0, 5, 100, 157, 314, 471, 600, 627}

SectorDeltas == {0, 10, 78, 157, 300, 313}

Sectors == {Sector(a, d) : a \in SectorAngles, d \in SectorDeltas}

InitSector ==
    /\ NoGame
    /\ pc = "sectors"
    /\ fn_in \in [s : Sectors, t : Sectors]
    /\ fn_out = <<>>

\* s.overlaps(&t) and t.overlaps(&s)
SectorOverlaps ==
    /\ pc = "sectors"
    /\ fn_out' = [st |-> overlaps(fn_in.s, fn_in.t),
                  ts |-> overlaps(fn_in.t, fn_in.s)]
    /\ pc' = "overlap_known"
    /\ UNCHANGED <<main, fn_in>>

SpecSector == InitSector /\ [][SectorOverlaps]_vars

\* ------------------------------------------------------------------------
\* C18: Sector::overlaps is commutative
\* ------------------------------------------------------------------------
\* C18: for all valid sectors S and T, S.overlaps(T) equals T.overlaps(S)
C18_Commutative ==
    pc = "overlap_known" => fn_out.st = fn_out.ts

\* the arc of t lies strictly inside the arc of s, so that no edge of s is
\* in t, and both calls report the overlap
C18_Witness ==
    /\ pc = "overlap_known"
    /\ fn_in.s = Sector(600, 157)
    /\ fn_in.t = Sector(5, 10)
    /\ ~overlaps_one_way(fn_in.s, fn_in.t)
    /\ fn_out.st /\ fn_out.ts

\* ------------------------------------------------------------------------
\* C19: Sector::overlaps is true exactly for arcs that share a direction
\* ------------------------------------------------------------------------
\* the angle between two directions, the short way round
CircularDistance(x, y) == Min((x - y) % TWO_PI, (y - x) % TWO_PI)

\* direction x lies in the arc of s
InArc(x, s) == CircularDistance(x, s.angle) <= s.delta

\* the two arcs share a direction.  The edges of the arcs are whole
\* hundredths, so arcs that meet meet in a whole hundredth
ShareDirection(s, t) ==
    \E x \in 0..(TWO_PI - 1) : InArc(x, s) /\ InArc(x, t)

CrossesZero(s) == SectorLeft(s) < 0 \/ SectorRight(s) >= TWO_PI

\* C19: for sectors with a half-width below pi, overlaps is true exactly
\* when the two arcs share at least one direction, also when arcs cross
\* the 0 / 2 pi boundary and when one arc contains the other
C19_OverlapsIffShared ==
    pc = "overlap_known" =>
        (fn_out.st <=> ShareDirection(fn_in.s, fn_in.t))

\* an arc across 0 and an arc inside it that does not cross 0: they share a
\* direction and overlaps says so
C19_Witness ==
    /\ pc = "overlap_known"
    /\ CrossesZero(fn_in.s) /\ ~CrossesZero(fn_in.t)
    /\ \A x \in 0..(TWO_PI - 1) : InArc(x, fn_in.t) => InArc(x, fn_in.s)
    /\ fn_in.t.delta > 0
    /\ fn_out.st

\* an arc across 0 and an arc in the first half turn that share no
\* direction: overlaps says so
C19_WitnessApart ==
    /\ pc = "overlap_known"
    /\ fn_in.s = Sector(100, 78)
    /\ fn_in.t = Sector(627, 10)
    /\ CrossesZero(fn_in.t)
    /\ ~fn_out.st

\* ------------------------------------------------------------------------
\* math_utils.rs: normalize_absolute_angle call by call, on f32 values
\* ------------------------------------------------------------------------
\* An f32 angle is either a small angle, in hundredths of a radian, whose
\* sums with 2 pi are taken as exact, or a whole number of radians of
\* magnitude 2^24 and more, where an f32 holds multiples of its unit in the
\* last place only and every sum is rounded to the nearest of them.
Small(n) == [scale |-> "centi", n |-> n]

Whole(n) == [scale |-> "whole", n |-> n]

\* n - TWO_PI in f32 for a whole n >= 2^24: n - 6.2832 lies 0.7168 above
\* n - 7, and the nearest f32 value is taken
f32_sub_two_pi(n) ==
    LET unit == UnitInLastPlace(n - 7)
        lower == unit * ((n - 7) \div unit)
        above == n - 7 - lower
    IN IF 2 * above + 2 <= unit THEN lower ELSE lower + unit

\* the angles normalize_absolute_angle is called with: the angles of its
\* tests, angles of many turns, the edges of [0, 2 pi), and large angles
\* that a script can pass to utils.normalize_absolute_angle
NormalizeInputs ==
    {Small(n) : n \in {-9999, -6280, -5000, -3141, -2000, -1571, -1256, -700,
                       -628, -314, -1, 0, 1, 314, 412, 627, 628, 629, 700,
                       1256, 1571, 2000, 3141, 5000, 6280, 9999}}
    \cup {Whole(134217744), Whole(268435456), Whole(1000000000),
          Whole(-1000000000)}

InitNormalize ==
    /\ NoGame
    /\ pc = "normalizing"
    /\ fn_in \in NormalizeInputs
    /\ fn_out = [angle |-> fn_in, first |-> <<>>, second |-> <<>>]

\* one call of normalize_absolute_angle: it calls itself with
\* angle - TWO_PI or angle + TWO_PI, or returns the angle; the caller then
\* applies the function to the result once more
NormalizeCall ==
    /\ pc = "normalizing"
    /\ LET angle == fn_out.angle
           whole == angle.scale = "whole"
       IN IF (whole /\ angle.n > 0) \/ (~whole /\ angle.n >= TWO_PI)
          THEN /\ fn_out' =
                     [fn_out EXCEPT !.angle =
                         IF whole THEN Whole(f32_sub_two_pi(angle.n))
                         ELSE Small(angle.n - TWO_PI)]
               /\ pc' = pc
          ELSE IF angle.n < 0
          THEN /\ fn_out' =
                     [fn_out EXCEPT !.angle =
                         IF whole THEN Whole(-f32_sub_two_pi(-angle.n))
                         ELSE Small(angle.n + TWO_PI)]
               /\ pc' = pc
          ELSE /\ fn_out' =
                     [fn_out EXCEPT !.first = <<angle>>,
                                    !.second =
                                       <<Small(normalize_absolute_angle(angle.n))>>]
               /\ pc' = "normalized"
    /\ UNCHANGED <<main, fn_in>>

\* the calls are made one after the other without a pause
SpecNormalize ==
    InitNormalize /\ [][NormalizeCall]_vars /\ WF_vars(NormalizeCall)

\* ------------------------------------------------------------------------
\* C20: normalize_absolute_angle terminates with the angle in [0, 2 pi)
\* ------------------------------------------------------------------------
\* what is returned lies in [0, 2 pi), differs from the input by whole
\* turns, and is returned unchanged by a second application
C20_ReturnsNormalized ==
    pc = "normalized" =>
        LET res == fn_out.first[1]
        IN /\ res.scale = fn_in.scale
           /\ 0 <= res.n /\ res.n < TWO_PI
           /\ (fn_in.n - res.n) % TWO_PI = 0
           /\ fn_out.second = fn_out.first

\* C20: for any finite angle normalize_absolute_angle terminates, and it
\* returns a value in [0, 2 pi) that differs from the input by a whole
\* multiple of 2 pi and that a second application leaves unchanged
C20_Normalizes == <>(pc = "normalized") /\ []C20_ReturnsNormalized

\* an angle of several turns, negative, was normalized
C20_WitnessReturned ==
    /\ pc = "normalized"
    /\ fn_in = Small(-1571)
    /\ fn_out.first = <<Small(313)>>

\* a call with a large angle calls itself with the same angle
C20_WitnessAbsorbed ==
    /\ pc = "normalizing"
    /\ fn_out.angle = Whole(1000000000)
    /\ f32_sub_two_pi(fn_out.angle.n) = fn_out.angle.n

\* ------------------------------------------------------------------------
\* C21: the recording stages leave the game state alone
\* ------------------------------------------------------------------------
\* the stages of step between the opening of the tick and advancement
RecordingStages ==
    {"init_tick", "check_for_round_end", "transition_players",
     "create_attacks", "transition_attacks"}

\* the game state without the intents of the characters
WithoutIntents(g) ==
    [g EXCEPT !.impls = [id \in DOMAIN g.impls |->
                           [g.impls[id] EXCEPT !.intent = DefaultIntent]]]

\* C21: between the opening of a tick and the advancement step the
\* recording stages leave all game state unchanged (HP, positions,
\* headings, cooldowns, intents, projectiles, the tick counter and the
\* attack-id counter), and the dispatch that follows advancement changes
\* intents only
C21_StagesOnlyRecord ==
    [][/\ (pc \in RecordingStages /\ pc' # pc) => game' = game
       /\ (pc = "run_players" /\ pc' # pc) =>
             WithoutIntents(game') = WithoutIntents(game)
       /\ (pc = "send" /\ pc' # pc) => game' = game]_vars

\* C21 but for the attack-id counter, which create_attacks draws from
C21_StagesOnlyRecordButIds ==
    [][/\ (pc \in RecordingStages /\ pc' # pc) =>
             game' = [game EXCEPT !.attack_ids = game'.attack_ids]
       /\ (pc \in RecordingStages \ {"create_attacks"} /\ pc' # pc) =>
             game' = game
       /\ (pc = "run_players" /\ pc' # pc) =>
             WithoutIntents(game') = WithoutIntents(game)
       /\ (pc = "send" /\ pc' # pc) => game' = game]_vars

\* create_attacks has recorded a projectile and drawn its id; the
\* projectile is not in the list and the cooldown of its owner is still 0
C21_Witness ==
    /\ pc = "transition_attacks"
    /\ game.attack_ids > 0
    /\ \E i \in 1..Len(event_manager.current_events) :
          LET e == event_manager.current_events[i]
          IN /\ e.tag = "AttackCreated"
             /\ e.attack.id = game.attack_ids - 1
             /\ \A j \in 1..Len(game.attacks) : game.attacks[j].id # e.attack.id
             /\ game.player_states[e.owner].attack_cooldown = 0
             /\ game.impls[e.owner].intent.attack

\* ------------------------------------------------------------------------
\* C22: a character stopped by the arena bounds
\* ------------------------------------------------------------------------
\* the candidate position of a character lies outside the reduced bounds
OutOfBounds(g, id) ==
    ~valid_position(PointAdd(g.player_states[id].pos, CandidateDelta(g, id)))

\* the position events recorded for a character in the current batch
PositionDeltas(id) ==
    LET ev == SelectSeq(event_manager.current_events,
                        LAMBDA e : e.tag = "PlayerPositionUpdated" /\ e.id = id)
    IN [i \in 1..Len(ev) |-> ev[i].delta]

\* the advancement step of a tick in which the candidate of a character
\* is out of bounds leaves its position alone, on a zero-delta event
C22_BlockedStaysStep ==
    (pc = "advance_game_state" /\ pc' # pc) =>
        \A id \in Ids(game) :
            OutOfBounds(game, id) =>
                /\ PositionDeltas(id) = <<PointZero>>
                /\ game'.player_states[id].pos = game.player_states[id].pos

\* and leaves the remaining distance of its intent alone
C22_BlockedKeepsDistanceStep ==
    (pc = "advance_game_state" /\ pc' # pc) =>
        \A id \in Ids(game) :
            OutOfBounds(game, id) =>
                game'.impls[id].intent.distance = game.impls[id].intent.distance

\* C22: when a character's candidate position lies outside the reduced
\* arena bounds, its position is unchanged by that tick, its position
\* event has a zero delta, and the remaining intended distance of its
\* intent is the same after the tick as before
C22_BlockedKeepsDistance ==
    [][C22_BlockedStaysStep /\ C22_BlockedKeepsDistanceStep]_vars

\* the position half of C22
C22_BlockedStays == [][C22_BlockedStaysStep]_vars

\* ------------------------------------------------------------------------
\* C23: collisions stop both characters
\* ------------------------------------------------------------------------
\* the position a character would have after the tick, from the state at
\* the start of the tick: its candidate, or its position when the
\* candidate is out of bounds
Candidate(id) ==
    IF OutOfBounds(game, id) THEN game.player_states[id].pos
    ELSE PointAdd(game.player_states[id].pos, CandidateDelta(game, id))

\* two positions within 2 x radius of each other
TooClose(p, q) == dist_sqr(p, q) <= (2 * PLAYER_RADIUS) * (2 * PLAYER_RADIUS)

C23_WitnessFree ==
    /\ pc = "create_attacks"
    /\ \E id, other \in Ids(game) :
          /\ id # other
          /\ PositionDeltas(id) = <<CandidateDelta(game, id)>>
          /\ CandidateDelta(game, id) # PointZero

\* ------------------------------------------------------------------------
\* C24: projectiles are created on request and when the cooldown is over
\* ------------------------------------------------------------------------
\* the projectiles recorded as created by a character in the current batch
CreatedBy(id) ==
    SelectSeq(event_manager.current_events,
              LAMBDA e : e.tag = "AttackCreated" /\ e.owner = id)

\* after create_attacks the batch holds a created projectile for exactly
\* the characters that asked for one with a cooldown of zero
C24_CreatedWhenReady ==
    pc = "transition_attacks" =>
        \A id \in Ids(game) :
            Len(CreatedBy(id)) =
                IF /\ game.impls[id].intent.attack
                   /\ game.player_states[id].attack_cooldown = 0
                THEN 1 ELSE 0

\* advancement sets the cooldown of a character that created a projectile
\* and clears its request; the cooldown of every other character runs
\* down by one to zero and its request stays as it is
C24_CooldownStep ==
    (pc = "advance_game_state" /\ pc' # pc) =>
        \A id \in Ids(game) :
            LET before == game.player_states[id].attack_cooldown
                after == game'.player_states[id].attack_cooldown
            IN IF CreatedBy(id) # <<>>
               THEN /\ after = ATTACK_COOLDOWN
                    /\ ~game'.impls[id].intent.attack
               ELSE /\ after = Max(before - 1, 0)
                    /\ game'.impls[id].intent.attack
                          = game.impls[id].intent.attack

\* C24: a projectile-created event for a character is recorded in a tick
\* exactly when at the start of the tick its intent asks for an attack and
\* its cooldown is zero; after the advancement of that tick its cooldown is
\* ATTACK_COOLDOWN and the request is cleared, and the cooldown then runs
\* down by one per tick to zero
C24_AttackAndCooldown == []C24_CreatedWhenReady /\ [][C24_CooldownStep]_vars

\* a character has created its second projectile, after the cooldown of
\* the first one ran down
C24_Witness ==
    /\ pc = "run_players"
    /\ \E id \in Ids(game) :
          /\ CreatedBy(id) # <<>>
          /\ CreatedBy(id)[1].attack.id > 0
          /\ game.player_states[id].attack_cooldown = ATTACK_COOLDOWN
          /\ ~game.impls[id].intent.attack
          /\ \E k \in 1..Len(sent) : \E i \in 1..Len(sent[k]) :
                /\ sent[k][i].tag = "AttackCreated"
                /\ sent[k][i].owner = id


\* ------------------------------------------------------------------------
\* C25: the fate of a projectile in a tick
\* ------------------------------------------------------------------------

AttackEventTags == {"AttackAdvanced", "AttackMissed", "Hit"}

\* the positions in the current batch of the events about a projectile
EventsAbout(id) ==
    {k \in DOMAIN event_manager.current_events :
        /\ event_manager.current_events[k].tag \in AttackEventTags
        /\ event_manager.current_events[k].id = id}

\* where a projectile would be after this tick
NextAttackPos(attack) ==
    line_endpoint(attack.pos.x, attack.pos.y, attack.velocity, attack.heading)

InFlight(g, id) == \E i \in DOMAIN g.attacks : g.attacks[i].id = id

\* A game of three characters that fight or stand still, run for long
\* enough that a projectile crosses the PLAYER_RADIUS between the start
\* position nearest to a wall and that wall (thirteen steps of
\* ATTACK_VELOCITY, the first in the tick after the one that creates it).
MaxMeleeTicks == 15

MeleeScripts == {ScriptIdle, ScriptFighter}

\* three characters in a column, each a step of ATTACK_VELOCITY out of the
\* hit range of the next, all looking up the column
LayoutColumn ==
    <<Point(3000, 3000), Point(3000, 3315), Point(3000, 3630), Point(9000, 9000)>>

\* the positions thread_rng can give the three
MeleeLayouts == {LayoutClose, LayoutWall, LayoutColumn}

\* main has added three characters
MeleeGames ==
    {add_lua_player(
         add_lua_player(
             add_lua_player(NewGame, CharacterDir(TRUE, TRUE, TRUE, a)),
             CharacterDir(TRUE, TRUE, TRUE, b)),
         CharacterDir(TRUE, TRUE, TRUE, c)) : a, b, c \in MeleeScripts}

InitMelee ==
    /\ game \in MeleeGames
    /\ event_manager = NewEventManager
    /\ order = <<>>
    /\ pc = "setup"
    /\ next_round = 1
    /\ cancel = FALSE
    /\ sent = <<>>
    /\ result = "none"
    /\ last_add = "ok"
    /\ add_errors = 0
    /\ calls = <<>>
    /\ replay = <<>>
    /\ run = 1
    /\ first_run = <<>>
    /\ fn_in = <<>>
    /\ fn_out = <<>>

\* run_round is entered: Game::init_round with the positions drawn
MeleeInitRound ==
    /\ pc = "init_round"
    /\ \E layout \in MeleeLayouts :
          /\ game' = init_round(game, next_round, order, layout)
          /\ event_manager' =
                em_init_round(event_manager, next_round, RoundPlayers(order, layout))
    /\ pc' = "round_loop"
    /\ UNCHANGED <<aux, order, next_round, cancel, sent, result, last_add,
                   add_errors, calls, replay>>

\* run_round: the head of the loop, the cancel check
MeleeRoundLoop ==
    /\ pc = "round_loop"
    /\ cancel \/ game.tick < MaxMeleeTicks
    /\ IF cancel
       THEN /\ pc' = "game_loop"
            /\ next_round' = next_round + 1
       ELSE /\ pc' = "init_tick"
            /\ UNCHANGED next_round
    /\ UNCHANGED <<aux, game, event_manager, order, cancel, sent, result, last_add,
                   add_errors, calls, replay>>

NextMelee ==
    \/ StartGame
    \/ RunGameLoop
    \/ MeleeInitRound
    \/ MeleeRoundLoop
    \/ InitTick
    \/ CheckForRoundEnd
    \/ TransitionPlayers
    \/ CreateAttacks
    \/ TransitionAttacks
    \/ AdvanceGameState
    \/ RunPlayers
    \/ Send
    \/ WriteEvents

SpecMelee == InitMelee /\ [][NextMelee]_vars

\* once transition_attacks has run, each projectile of the list has one
\* event, and it is AttackMissed exactly when the projectile leaves the arena
C25_OneEventEach ==
    pc = "advance_game_state" =>
        \A i \in DOMAIN game.attacks :
            LET attack == game.attacks[i]
            IN /\ Cardinality(EventsAbout(attack.id)) = 1
               /\ \A k \in EventsAbout(attack.id) :
                      (event_manager.current_events[k].tag = "AttackMissed")
                          <=> ~inside_arena(NextAttackPos(attack))

\* advance_game_state drops the projectiles that missed or hit and moves
\* the others
C25_Step ==
    (pc = "advance_game_state" /\ pc' = "run_players") =>
        \A i \in DOMAIN game.attacks :
            LET attack == game.attacks[i]
            IN \A k \in EventsAbout(attack.id) :
                   IF event_manager.current_events[k].tag = "AttackAdvanced"
                   THEN \E j \in DOMAIN game'.attacks :
                           /\ game'.attacks[j].id = attack.id
                           /\ game'.attacks[j].pos = NextAttackPos(attack)
                   ELSE ~InFlight(game', attack.id)

\* the batches recorded so far, the current one included
AllBatches == Append(event_manager.all_events, event_manager.current_events)

\* where in the batches an event with the given tag is
EventsTagged(tag) ==
    UNION {{<<b, k>> : k \in {j \in DOMAIN AllBatches[b] :
                                  AllBatches[b][j].tag = tag}} :
           b \in DOMAIN AllBatches}

\* no projectile hits twice
C25_HitsOnce ==
    \A p, q \in EventsTagged("Hit") :
        AllBatches[p[1]][p[2]].id = AllBatches[q[1]][q[2]].id => p = q

\* C25: every projectile that exists at the start of a tick gets exactly one
\* of AttackAdvanced, AttackMissed and Hit in that tick, AttackMissed exactly
\* when its next position is outside the arena; after AttackMissed or Hit it
\* is no longer in the list, so that a projectile hits at most once
C25_ProjectileFate ==
    [](C25_OneEventEach /\ C25_HitsOnce) /\ [][C25_Step]_vars

\* a projectile has hit a character and another has left the arena
C25_Witness ==
    /\ pc = "run_players"
    /\ EventsTagged("Hit") # {}
    /\ \E k \in DOMAIN event_manager.current_events :
           /\ event_manager.current_events[k].tag = "AttackMissed"
           /\ ~InFlight(game, event_manager.current_events[k].id)


\* ------------------------------------------------------------------------
\* C26: who a projectile can hit
\* ------------------------------------------------------------------------

\* the Hit events of the current batch
CurrentHits ==
    {k \in DOMAIN event_manager.current_events :
        event_manager.current_events[k].tag = "Hit"}

InRange(attack, id) ==
    dist(attack.pos, game.player_states[id].pos) <= ATTACK_RADIUS + PLAYER_RADIUS

\* once transition_attacks has run, with the game as it was when the tick
\* began: a Hit names the owner of its projectile and a living victim who
\* is somebody else
C26_HitIsFair ==
    pc = "advance_game_state" =>
        \A k \in CurrentHits :
            LET hit == event_manager.current_events[k]
            IN /\ \E i \in DOMAIN game.attacks :
                      /\ game.attacks[i].id = hit.id
                      /\ game.attacks[i].owner = hit.owner
               /\ hit.victim # hit.owner
               /\ game.player_states[hit.victim].hp > 0

\* advance_game_state takes hit points only from such victims
C26_Step ==
    (pc = "advance_game_state" /\ pc' = "run_players") =>
        \A id \in Ids(game) :
            game'.player_states[id].hp < game.player_states[id].hp =>
                /\ game.player_states[id].hp > 0
                /\ \E k \in CurrentHits :
                       /\ event_manager.current_events[k].victim = id
                       /\ event_manager.current_events[k].owner # id

\* C26: every Hit event has a victim different from the projectile's owner,
\* and the victim has HP > 0 at the start of the tick in which the hit is
\* detected; a projectile never damages its owner or a character already dead
C26_NoSelfNoDead == []C26_HitIsFair /\ [][C26_Step]_vars

\* a projectile hits a living character with its owner and a dead
\* character in range as well
C26_Witness ==
    /\ pc = "advance_game_state"
    /\ \E k \in CurrentHits, i \in DOMAIN game.attacks, dead \in Ids(game) :
           /\ game.attacks[i].id = event_manager.current_events[k].id
           /\ InRange(game.attacks[i], game.attacks[i].owner)
           /\ dead # game.attacks[i].owner
           /\ game.player_states[dead].hp <= 0
           /\ InRange(game.attacks[i], dead)


\* ------------------------------------------------------------------------
\* C27: the Death event
\* ------------------------------------------------------------------------

\* the Death events run_players has just sent a character
DeathsSent(id) ==
    Cardinality({k \in DOMAIN calls :
                    calls[k].id = id /\ calls[k].kind = "Death"})

\* the Hit events of the current batch with the given victim
HitsOn(id) ==
    {k \in CurrentHits : event_manager.current_events[k].victim = id}

\* the character's HP fell to 0 or below in this tick: only the living
\* are hit
FellNow(id) == HitsOn(id) # {} /\ game.player_states[id].hp <= 0

\* C27: a character whose HP falls to <= 0 in a tick is sent Death in that
\* tick and exactly once in the round, also when several projectiles hit
\* it in the same tick; a character whose HP stays > 0 is never sent Death
C27_DeathOnce ==
    pc = "send" =>
        \A id \in Ids(game) :
            DeathsSent(id) = IF FellNow(id) THEN 1 ELSE 0

\* what the code does: one Death for each Hit on a character that the
\* tick has left dead
C27_DeathPerHit ==
    pc = "send" =>
        \A id \in Ids(game) :
            DeathsSent(id) = IF FellNow(id) THEN Cardinality(HitsOn(id)) ELSE 0


\* ------------------------------------------------------------------------
\* C28: the state a round starts from
\* ------------------------------------------------------------------------

\* init_round has just returned
RoundJustStarted == pc = "round_loop" /\ game.tick = 0

\* what init_round resets of a character, the cooldown aside
FreshButCooldown(id) ==
    /\ game.player_states[id].hp = INITIAL_HP
    /\ game.player_states[id].heading = 0
    /\ game.player_states[id].head_heading = 0
    /\ game.player_states[id].arms_heading = 0
    /\ game.impls[id].intent = DefaultIntent

\* C28: after init_round, whatever the state at the end of the previous
\* round, every character has the initial HP, body, head and arms headings
\* 0, attack cooldown 0 and a default intent, and the projectile list is
\* empty
C28_FreshRound ==
    RoundJustStarted =>
        /\ game.attacks = <<>>
        /\ \A id \in Ids(game) :
               FreshButCooldown(id) /\ game.player_states[id].attack_cooldown = 0

\* what the code does: everything but the cooldown is reset
C28_FreshRoundButCooldown ==
    RoundJustStarted =>
        /\ game.attacks = <<>>
        /\ \A id \in Ids(game) : FreshButCooldown(id)


\* ------------------------------------------------------------------------
\* C29: the start positions of a round
\* ------------------------------------------------------------------------

\* the RoundStarted event init_round has recorded
RoundStartedNow == event_manager.current_events[1]

\* the positions RoundStarted reports are those of the characters
ReportedAreAssigned ==
    /\ RoundStartedNow.tag = "RoundStarted"
    /\ {RoundStartedNow.players[i].id : i \in DOMAIN RoundStartedNow.players}
           = Ids(game)
    /\ \A i \in DOMAIN RoundStartedNow.players :
           game.player_states[RoundStartedNow.players[i].id].pos
               = RoundStartedNow.players[i].pos

\* C29: the positions assigned by init_round are collision-free, every two
\* characters more than 2 x PLAYER_RADIUS apart, and the positions reported
\* in RoundStarted are the positions assigned
C29_StartsApart ==
    RoundJustStarted =>
        /\ ReportedAreAssigned
        /\ \A id, other \in Ids(game) :
               id # other => ~TooClose(game.player_states[id].pos,
                                       game.player_states[other].pos)

\* what the code does: the positions are reported as they were drawn
C29_StartsAsReported == RoundJustStarted => ReportedAreAssigned


\* ------------------------------------------------------------------------
\* C30: the range of the hit points
\* ------------------------------------------------------------------------

\* C30: in every reachable state each character's HP is at least 0 and at
\* most the initial HP: it is floored at 0 and never negative, also when
\* several projectiles hit the same character in one tick
C30_HpInRange ==
    \A id \in Ids(game) :
        /\ game.player_states[id].hp >= 0
        /\ game.player_states[id].hp <= INITIAL_HP

\* what the code does: the HP is never above the initial HP
C30_HpAtMostInitial ==
    \A id \in Ids(game) : game.player_states[id].hp <= INITIAL_HP


\* ------------------------------------------------------------------------
\* C33: who is sent EnemySeen about whom
\* ------------------------------------------------------------------------

\* the characters run_players has just told the observer it sees; the
\* intents aside the game is the one run_players worked on
SeenBy(id) ==
    LET seen == EnemySeenEvents(game, id, order)
    IN {seen[k].about : k \in DOMAIN seen}

\* the on_event calls of the last run_players that delivered EnemySeen
SeenCalls(id) ==
    {k \in DOMAIN calls : calls[k].id = id /\ calls[k].kind = "EnemySeen"}

\* C33: EnemySeen is delivered only to a living observer and only about a
\* living character other than the observer
C33_SeenAmongLiving ==
    pc = "send" =>
        \A id \in Ids(game) :
            /\ SeenCalls(id) # {} => game.player_states[id].hp > 0
            /\ \A other \in SeenBy(id) :
                   other # id /\ game.player_states[other].hp > 0

\* what the code does: nobody is told it sees itself
C33_SeenIsOther ==
    pc = "send" =>
        \A id \in Ids(game) :
            /\ Cardinality(SeenCalls(id)) = Cardinality(SeenBy(id))
            /\ id \notin SeenBy(id)


\* ------------------------------------------------------------------------
\* C39: the dead and their projectiles
\* ------------------------------------------------------------------------

\* the characters create_attacks has recorded AttackCreated for in this tick
Creators ==
    {event_manager.current_events[k].owner :
        k \in {j \in DOMAIN event_manager.current_events :
                  event_manager.current_events[j].tag = "AttackCreated"}}

\* C39: once a character's HP is <= 0, no AttackCreated is recorded for it
\* for the rest of the round, even if its intent still has the attack flag
\* set and its cooldown reaches zero
C39_DeadDoNotAttack ==
    pc = "transition_attacks" =>
        \A id \in Creators : game.player_states[id].hp > 0


\* ------------------------------------------------------------------------
\* A skirmish: four fighters, or three characters that rove, walk or stand
\* still, on start positions that put them next to each other or to a wall
\* ------------------------------------------------------------------------

\* two pairs of characters, the pairs side by side and each pair within the
\* hit range of the other, all looking up
LayoutStagger ==
    <<Point(3000, 3070), Point(3000, 3140), Point(3200, 3280), Point(3200, 3385)>>

\* three characters on a diagonal, each a little more than 2 x PLAYER_RADIUS
\* from the next and in the field of vision of the one below it
LayoutStairs ==
    <<Point(3000, 3000), Point(3300, 3402), Point(3600, 3804), Point(9000, 9000)>>

\* the positions thread_rng can give the characters of a skirmish
SkirmishLayouts == {LayoutStagger, LayoutStairs, LayoutWall}

SkirmishScripts == {ScriptIdle, ScriptRover, ScriptWalker}

\* main has added three characters, or four fighters
SkirmishGames ==
    {add_lua_player(
         add_lua_player(
             add_lua_player(NewGame, CharacterDir(TRUE, TRUE, TRUE, a)),
             CharacterDir(TRUE, TRUE, TRUE, b)),
         CharacterDir(TRUE, TRUE, TRUE, c)) : a, b, c \in SkirmishScripts} \cup
    {add_lua_player(
         add_lua_player(
             add_lua_player(
                 add_lua_player(NewGame, CharacterDir(TRUE, TRUE, TRUE, ScriptFighter)),
                 CharacterDir(TRUE, TRUE, TRUE, ScriptFighter)),
             CharacterDir(TRUE, TRUE, TRUE, ScriptFighter)),
         CharacterDir(TRUE, TRUE, TRUE, ScriptFighter))}

InitSkirmish ==
    /\ game \in SkirmishGames
    /\ event_manager = NewEventManager
    /\ order = <<>>
    /\ pc = "setup"
    /\ next_round = 1
    /\ cancel = FALSE
    /\ sent = <<>>
    /\ result = "none"
    /\ last_add = "ok"
    /\ add_errors = 0
    /\ calls = <<>>
    /\ replay = <<>>
    /\ run = 1
    /\ first_run = <<>>
    /\ fn_in = <<>>
    /\ fn_out = <<>>

\* run_round is entered: Game::init_round with the positions drawn
SkirmishInitRound ==
    /\ pc = "init_round"
    /\ \E layout \in SkirmishLayouts :
          /\ game' = init_round(game, next_round, order, layout)
          /\ event_manager' =
                em_init_round(event_manager, next_round, RoundPlayers(order, layout))
    /\ pc' = "round_loop"
    /\ UNCHANGED <<aux, order, next_round, cancel, sent, result, last_add,
                   add_errors, calls, replay>>

NextSkirmish ==
    \/ StartGame
    \/ RunGameLoop
    \/ SkirmishInitRound
    \/ MeleeRoundLoop
    \/ InitTick
    \/ CheckForRoundEnd
    \/ TransitionPlayers
    \/ CreateAttacks
    \/ TransitionAttacks
    \/ AdvanceGameState
    \/ RunPlayers
    \/ Send
    \/ WriteEvents

SpecSkirmish == InitSkirmish /\ [][NextSkirmish]_vars


\* ------------------------------------------------------------------------
\* C40: the winner of a round
\* ------------------------------------------------------------------------

\* run_round has left its loop on a round that came to its end
RoundLoopLeft == pc = "game_loop" /\ ~cancel /\ game.round_state # Ongoing

C40_WinnerWasLastStanding ==
    pc = "transition_players" =>
        \A k \in DOMAIN event_manager.current_events :
            LET e == event_manager.current_events[k]
            IN (e.tag = "RoundOver" /\ e.winner # None) =>
                   living_players(game) = {e.winner}


\* ------------------------------------------------------------------------
\* C37: characters keep their distance
\* ------------------------------------------------------------------------

\* the batches that open the round being played
RoundStartBatches ==
    {b \in DOMAIN AllBatches :
        /\ AllBatches[b] # <<>>
        /\ AllBatches[b][1].tag = "RoundStarted"
        /\ AllBatches[b][1].round = game.round}

\* the round started with every two characters more than 2 x PLAYER_RADIUS
\* apart
StartedApart ==
    /\ RoundStartBatches # {}
    /\ \A b \in RoundStartBatches :
          LET players == AllBatches[b][1].players
          IN \A i, j \in DOMAIN players :
                 i # j => ~players_collide(players[i].pos, players[j].pos)

\* C37: in a round that started with all characters pairwise more than
\* 2 x PLAYER_RADIUS apart, they are pairwise more than 2 x PLAYER_RADIUS
\* apart after every tick, also when one character's move is suppressed
\* and a neighbour's move is committed
C37_StayApart ==
    (pc = "send" /\ StartedApart) =>
        \A id, other \in Ids(game) :
            id # other => ~players_collide(game.player_states[id].pos,
                                           game.player_states[other].pos)


\* ------------------------------------------------------------------------
\* C38: characters stay in the arena
\* ------------------------------------------------------------------------

\* init_round has given the characters their positions
RoundInitialised == EventsTagged("RoundStarted") # {}

\* C38: once init_round has run, every character's position lies inside
\* the reduced arena bounds (PLAYER_RADIUS <= x <= WIDTH - PLAYER_RADIUS
\* and PLAYER_RADIUS <= y <= HEIGHT - PLAYER_RADIUS), whatever the
\* characters are told to do
C38_InsideBounds ==
    RoundInitialised =>
        \A id \in Ids(game) : valid_position(game.player_states[id].pos)

\* a walker has walked from its start position up to the reduced bound,
\* and a tick has been applied in which its candidate was out of bounds
C38_Witness ==
    /\ pc = "run_players"
    /\ \E id \in Ids(game) :
          /\ game.impls[id].script = ScriptWalker
          /\ game.player_states[id].pos.y = PLAYER_RADIUS
          /\ PositionDeltas(id) = <<PointZero>>


\* ------------------------------------------------------------------------
\* C35: a movement is consumed as it is executed
\* ------------------------------------------------------------------------

\* a character with a distance left to go that nothing stops in this tick
MovesFreely(g, id) ==
    /\ g.impls[id].intent.distance > 0
    /\ ~OutOfBounds(g, id)
    /\ ~Collides(g, id)

\* the advancement step of a tick moves every character that moves freely
\* by its candidate delta, the step of min(distance left, MAX_VELOCITY)
\* in the direction asked for
C35_MovesStep ==
    (pc = "advance_game_state" /\ pc' # pc) =>
        \A id \in Ids(game) :
            MovesFreely(game, id) =>
                /\ PositionDeltas(id) = <<CandidateDelta(game, id)>>
                /\ game'.player_states[id].pos =
                       PointAdd(game.player_states[id].pos, CandidateDelta(game, id))

\* and takes the step off the distance left in its intent
C35_ConsumesStep ==
    (pc = "advance_game_state" /\ pc' # pc) =>
        \A id \in Ids(game) :
            MovesFreely(game, id) =>
                game'.impls[id].intent.distance =
                    game.impls[id].intent.distance
                        - Min(game.impls[id].intent.distance, MAX_VELOCITY)

\* C35: after Move(direction, D) with D > 0 a character that nothing
\* obstructs moves min(distance left, MAX_VELOCITY) per tick, and the
\* distance left in its intent decreases by exactly the distance moved in
\* that tick, so that the distance travelled is D in the end
C35_MoveConsumed == [][C35_MovesStep /\ C35_ConsumesStep]_vars

\* what the code does: the step is taken
C35_Moves == [][C35_MovesStep]_vars


\* ------------------------------------------------------------------------
\* C36: the rounds of a game
\* ------------------------------------------------------------------------

\* run_game has returned Ok and nobody has cancelled
GameCompleted == pc = "done" /\ result = "ok" /\ ~cancel

\* where the batches sent to the game_writer have a RoundStarted event
SentRoundStarts ==
    UNION {{<<b, k>> : k \in {j \in DOMAIN sent[b] :
                                  sent[b][j].tag = "RoundStarted"}} :
           b \in DOMAIN sent}

\* the game has had the rounds 1, 2, ..., n, each once and in this order
RoundsPlayed(n) ==
    /\ {sent[p[1]][p[2]].round : p \in SentRoundStarts} = 1..n
    /\ Cardinality(SentRoundStarts) = n
    /\ \A p, q \in SentRoundStarts :
           p[1] < q[1] => sent[p[1]][p[2]].round < sent[q[1]][q[2]].round

\* a round is started with the number that is its turn, the first at once
\* and every other after the round before it was won or drawn
C36_StartStep ==
    (pc = "init_round" /\ pc' = "round_loop") =>
        /\ game'.round = next_round
        /\ next_round = 1 \/ game.round_state.tag \in {"Won", "Draw"}

\* C36: a game that is neither cancelled nor ended by an adapter error
\* plays exactly the configured number of rounds, numbered 1, 2, ..., N in
\* increasing order, and a round is started only after the round before it
\* reached Won or Draw
C36_PlaysConfiguredRounds ==
    /\ [](GameCompleted => RoundsPlayed(default_rounds))
    /\ [][C36_StartStep]_vars

\* what the code does: the rounds are those of run_game's own max_rounds
C36_PlaysMaxRounds ==
    /\ [](GameCompleted => RoundsPlayed(max_rounds))
    /\ [][C36_StartStep]_vars


\* ------------------------------------------------------------------------
\* Turning: one character that is told to turn its body, head and arms,
\* tick by tick
\* ------------------------------------------------------------------------

\* the ticks of a round that are looked at: enough for the head to reach
\* the angle of action at MAX_HEAD_TURN_RATE per tick and to be held there
MaxTurnTicks == 17

\* the turn commands a script gives: of either sign, below and above the
\* rate of a tick, beyond the angle of action, and of a size where an f32
\* no longer holds hundredths (2 * 10^7 rad)
TurnCommands ==
    {Turn(3), Turn(12), Turn(-12), Turn(2000000000),
     TurnHead(12), TurnHead(700), TurnHead(-2000000000),
     TurnArms(-3), TurnArms(-700)}

\* what the script will answer to the events to come: one command, or two
TurnSchedules ==
    {<<c>> : c \in TurnCommands} \cup {<<c, d>> : c, d \in TurnCommands}

\* a round of one character has started
TurnGame ==
    init_round(add_lua_player(NewGame, CharacterDir(TRUE, TRUE, TRUE, ScriptIdle)),
               1, <<0>>, LayoutFar)

InitTurn ==
    /\ game = TurnGame
    /\ event_manager = NewEventManager
    /\ order = <<0>>
    /\ pc = "turning"
    /\ next_round = 1
    /\ cancel = FALSE
    /\ sent = <<>>
    /\ result = "none"
    /\ last_add = "ok"
    /\ add_errors = 0
    /\ calls = <<>>
    /\ replay = <<>>
    /\ run = 1
    /\ first_run = <<>>
    /\ fn_in \in TurnSchedules
    /\ fn_out = [asked |-> 0, turned |-> 0]

\* run_players: the character's script returns the next command of its
\* schedule, and the command is written to the intent
TurnCommand ==
    /\ pc = "turning"
    /\ fn_in # <<>>
    /\ LET cmd == Head(fn_in)
       IN /\ game' = [game EXCEPT !.impls[0].intent =
                         ApplyCommands(@, game.player_states[0],
                                       reduce_commands(<<cmd>>))]
          /\ fn_out' = IF cmd.tag = "Turn" THEN [asked |-> cmd.arg, turned |-> 0]
                       ELSE fn_out
    /\ fn_in' = Tail(fn_in)
    /\ UNCHANGED <<event_manager, order, pc, next_round, cancel, sent, result,
                   last_add, add_errors, calls, replay, run, first_run>>

\* step without the attacks: the Tick and the events of transition_players
\* are recorded and advance_game_state applies them
TurnTick ==
    /\ pc = "turning"
    /\ game.tick < MaxTurnTicks
    /\ LET events == <<EvTick(game.tick)>> \o transition_players(game, order)
       IN /\ game' = advance_game_state(game, events)
          /\ event_manager' = [event_manager EXCEPT !.current_events = events]
    /\ fn_out' = [fn_out EXCEPT !.turned = @ + BodyTurnDelta(game, 0)]
    /\ UNCHANGED <<order, pc, next_round, cancel, sent, result, last_add,
                   add_errors, calls, replay, run, first_run, fn_in>>

NextTurn == TurnCommand \/ TurnTick

SpecTurn == InitTurn /\ [][NextTurn]_vars


\* ------------------------------------------------------------------------
\* C31: headings are normalized
\* ------------------------------------------------------------------------

Normalized(angle) == 0 <= angle /\ angle < TWO_PI

\* C31: the body heading of every character, and the absolute head and
\* arms headings derived from it, lie in [0, 2 pi), whatever turn commands
\* were given
C31_HeadingsNormalized ==
    \A id \in Ids(game) :
        LET st == game.player_states[id]
        IN /\ Normalized(st.heading)
           /\ Normalized(effective_head_heading(st))
           /\ Normalized(effective_arms_heading(st))

\* the body was turned to the left across 0 while the head looks to the
\* right of it
C31_Witness ==
    /\ game.player_states[0].heading > PI
    /\ game.player_states[0].head_heading > 0
    /\ effective_head_heading(game.player_states[0])
           < game.player_states[0].heading


\* ------------------------------------------------------------------------
\* C32: head and arms stay within the angle of action
\* ------------------------------------------------------------------------

\* C32: the head offset and the arms offset of every character from its
\* body heading are of magnitude ANGLE_OF_ACTION at most, whatever TurnHead
\* and TurnArms commands were given, also while an earlier turn is pending
C32_WithinAngleOfAction ==
    \A id \in Ids(game) :
        /\ Abs(game.player_states[id].head_heading) <= ANGLE_OF_ACTION
        /\ Abs(game.player_states[id].arms_heading) <= ANGLE_OF_ACTION

\* the head has reached the angle of action, asked to turn beyond it, and
\* was held there in the last tick; the arms were told to turn as well
C32_Witness ==
    /\ game.player_states[0].head_heading = ANGLE_OF_ACTION
    /\ event_manager.current_events[3] = EvPlayerHeadTurned(0, 0)
    /\ game.player_states[0].arms_heading < 0
    /\ fn_in = <<>>


\* ------------------------------------------------------------------------
\* C34: a body turn is consumed as it is executed
\* ------------------------------------------------------------------------

\* the turn angle left in the intent of the character
TurnLeft(g) == g.impls[0].intent.turn_angle

\* a tick turns the body by what is left, clamped to +-MAX_TURN_RATE, and
\* takes exactly that off what is left, which comes nearer to 0 and does
\* not change sign
TurnTickConsumes ==
    LET left == TurnLeft(game)
        delta == clamp(left, -MAX_TURN_RATE, MAX_TURN_RATE)
    IN /\ event_manager'.current_events[2] = EvPlayerTurned(0, delta)
       /\ game'.player_states[0].heading =
              normalize_absolute_angle(game.player_states[0].heading + delta)
       /\ TurnLeft(game') = left - delta
       /\ TurnLeft(game') * left >= 0
       /\ left # 0 => Abs(TurnLeft(game')) < Abs(left)

C34_Step == game'.tick # game.tick => TurnTickConsumes

\* what was turned since the command and what is left make up the angle
\* of the command
C34_SumsToAsked == fn_out.turned + TurnLeft(game) = fn_out.asked

\* C34: after Turn(a), and until the next turn command, every tick turns
\* the body by the remaining angle clamped to +-MAX_TURN_RATE and reduces
\* the remaining angle of the intent by exactly that delta; the remaining
\* angle reaches exactly 0 after finitely many ticks, never changes sign,
\* and the deltas sum to a
C34_TurnConsumed == []C34_SumsToAsked /\ [][C34_Step]_vars

\* an angle of which an f32 holds the hundredths
HoldsHundredths(angle) == UnitInLastPlace(Abs(angle) \div 100) = 1

\* what the code does: a turn by such an angle is consumed
C34_SmallTurnConsumed ==
    /\ [](HoldsHundredths(fn_out.asked) => C34_SumsToAsked)
    /\ [][HoldsHundredths(TurnLeft(game)) => C34_Step]_vars

=============================================================================
